---- MODULE Spec2Model ----
(***************************************************************************)
(* Coupon Field Recognition Engine (coupon-training/scripts).              *)
(*                                                                         *)
(* Texts are sequences of one-character strings.  The rupee sign U+20B9 is *)
(* the token RUPEE.  Confidence values are integers in hundredths          *)
(* (0.5 is 50, 1.0 is 100); the classifier's confidence, a ratio, is kept  *)
(* as a numerator over the denominator 100 * len(text)^2.                  *)
(***************************************************************************)
EXTENDS Integers, Sequences, FiniteSets, TLC

VARIABLES
    mode,           \* which entry point this run exercises
    pc,             \* position of the running call
    fn,             \* pure-function runs: the function applied ("none" before)
    inp,            \* pure-function runs: the input record
    out,            \* pure-function runs: the value returned
    image,          \* the image behind image_path: Unreadable or its dimensions
    regions,        \* the regions argument: a sequence of [type, list] (dict order)
    methods,        \* config['fallback_methods']
    ti,             \* process_image: index of the region type being processed
    ri,             \* process_image: index of the region within the type's list
    best,           \* process_image: best_result of the current type
    results,        \* process_image: the results accumulated per type
    cands,          \* log: one entry per region processed for the current type
    attempt,        \* retry wrapper: attempt
    current_delay,  \* retry wrapper: current_delay
    slept,          \* retry wrapper: the time.sleep calls of the current wrapped call
    w_calls,        \* retry wrapper: invocations of func by the current wrapped call
    w_out,          \* retry wrapper: how the last wrapped call ended
    ocr_calls,      \* OCR invocations of the current region
    midx,           \* extract_text_with_fallbacks: index of the fallback method
    fresults,       \* extract_text_with_fallbacks: results
    stages,         \* log: the stages invoked for the current region
    ocr_used,       \* log: the OCR engine was invoked during this run
    use_fixed,      \* ImprovedCouponRecognizer: config['use_fixed_patterns']
    detected,       \* what the adaptive pattern recognizer finds in the image
    futures,        \* ResourceManager: the tasks submitted to the thread pool
    cleanups,       \* log: calls of cleanup_memory
    invoked,        \* log: CouponRecognizer's stage invocations during this run
    cv_image,       \* the image array the run crops its regions from
    current_memory, \* MemoryMonitor.current_memory
    max_memory,     \* MemoryMonitor.max_memory
    memory_mb,      \* MemoryMonitor.run: the sample just taken
    monitor_pc,     \* MemoryMonitor.run: position of the monitor thread
    image_paths,    \* batch_process: the images behind image_paths, in order
    bi,             \* batch_process: index of the image being processed
    batch_results,  \* batch_process: batch_results, one entry per image processed
    h_ret,          \* what ErrorRecoveryHandler.process_image returned
    t_ret,          \* what CouponRecognizer.process_image returned
    i_ret,          \* what ImprovedCouponRecognizer.process_image returned
    rm_ret,         \* what ResourceManager.process_image returned
    raised          \* an exception left the entry point

vars == <<mode, pc, fn, inp, out, image, regions, methods, ti, ri, best, results,
          cands, attempt, current_delay, slept, w_calls, w_out, ocr_calls, midx,
          fresults, stages, ocr_used, use_fixed, detected, futures, cleanups,
          invoked, cv_image, current_memory, max_memory, memory_mb, monitor_pc,
          image_paths, bi, batch_results, h_ret, t_ret, i_ret, rm_ret, raised>>

pureVars == <<fn, inp, out>>

inputVars == <<image, regions, methods>>

loopVars == <<ti, ri, best, results, cands>>

retryVars == <<attempt, current_delay, slept, w_calls, w_out>>

extractVars == <<ocr_calls, midx, fresults, stages>>

envVars == <<mode, fn, inp, out, image, regions, methods, use_fixed, detected>>

retVars == <<h_ret, t_ret, i_ret, rm_ret, raised>>

memVars == <<current_memory, max_memory, memory_mb, monitor_pc>>

batchVars == <<image_paths, bi, batch_results>>

sideVars == <<futures, cleanups, invoked, cv_image, memVars, batchVars>>

(***************************************************************************)
(* Characters and Python's str predicates                                  *)
(***************************************************************************)
RUPEE == "INR"

\* The letter U+00DF: it is alphabetic and lower-case, and str.upper() turns it
\* into the two characters "SS".
ESZETT == "sz"

UpperSeq == <<"A","B","C","D","E","F","G","H","I","J","K","L","M",
              "N","O","P","Q","R","S","T","U","V","W","X","Y","Z">>

LowerSeq == <<"a","b","c","d","e","f","g","h","i","j","k","l","m",
              "n","o","p","q","r","s","t","u","v","w","x","y","z">>

Uppers == {UpperSeq[i] : i \in 1..26}

Lowers == {LowerSeq[i] : i \in 1..26}

Digits == {"0","1","2","3","4","5","6","7","8","9"}

Spaces == {" ", "\n", "\t"}

isdigit(c) == c \in Digits

isalpha(c) == c \in Uppers \cup Lowers \cup {ESZETT}

isalnum(c) == isalpha(c) \/ isdigit(c)

isspace(c) == c \in Spaces

isupper(c) == c \in Uppers

\* c.upper() for a one-character string c: a string of one or two characters
upper_char(c) ==
    IF c \in Lowers THEN <<UpperSeq[CHOOSE i \in 1..26 : LowerSeq[i] = c]>>
    ELSE IF c = ESZETT THEN <<"S", "S">>
    ELSE <<c>>

lower_char(c) ==
    IF c \in Uppers THEN LowerSeq[CHOOSE i \in 1..26 : UpperSeq[i] = c] ELSE c

RECURSIVE upper(_)
upper(s) == IF s = <<>> THEN <<>> ELSE upper_char(Head(s)) \o upper(Tail(s))

lower(s) == [i \in 1..Len(s) |-> lower_char(s[i])]

SetMin(S) == CHOOSE x \in S : \A y \in S : x <= y

SetMax(S) == CHOOSE x \in S : \A y \in S : x >= y

Min2(a, b) == IF a <= b THEN a ELSE b

\* The characters of s at the indices in keep, in order.
Pick(s, keep) ==
    [k \in 1..Cardinality(keep) |->
        s[CHOOSE i \in keep : Cardinality({j \in keep : j <= i}) = k]]

\* str.strip()
strip(s) ==
    LET idx == {i \in 1..Len(s) : ~isspace(s[i])}
    IN  IF idx = {} THEN <<>> ELSE SubSeq(s, SetMin(idx), SetMax(idx))

\* re.sub(r'\s+', ' ', s)
collapse_ws(s) ==
    LET keep == {i \in 1..Len(s) : ~isspace(s[i]) \/ i = 1 \/ ~isspace(s[i-1])}
        t    == [i \in 1..Len(s) |-> IF isspace(s[i]) THEN " " ELSE s[i]]
    IN  Pick(t, keep)

\* str.split(): the maximal runs of non-whitespace characters
split(s) ==
    LET starts == {i \in 1..Len(s) : ~isspace(s[i]) /\ (i = 1 \/ isspace(s[i-1]))}
        EndOf(i) == SetMin({j \in i..Len(s) : j = Len(s) \/ isspace(s[j+1])})
    IN  [k \in 1..Cardinality(starts) |->
            LET i == CHOOSE i \in starts : Cardinality({j \in starts : j <= i}) = k
            IN  SubSeq(s, i, EndOf(i))]

RECURSIVE join(_)
\* ' '.join(words)
join(words) ==
    IF words = <<>> THEN <<>>
    ELSE IF Len(words) = 1 THEN words[1]
    ELSE words[1] \o <<" ">> \o join(Tail(words))

\* sub occurs in s at index i
OccursAt(s, sub, i) ==
    /\ i >= 1
    /\ i + Len(sub) - 1 <= Len(s)
    /\ \A k \in 1..Len(sub) : s[i + k - 1] = sub[k]

Contains(s, sub) == \E i \in 1..Len(s) : OccursAt(s, sub, i)

\* re.search(r'(?i).*(w1|w2|...).*', s) for lower-case words
ContainsAnyCI(s, words) == \E w \in words : Contains(lower(s), w)

\* s with one space inserted before each character whose index is in at
RECURSIVE InsertSpaces(_, _, _)
InsertSpaces(s, at, i) ==
    IF i > Len(s) THEN <<>>
    ELSE (IF i \in at THEN <<" ", s[i]>> ELSE <<s[i]>>) \o InsertSpaces(s, at, i + 1)

IsSep(c) == c \in {"/", ".", "-"}

\* The end index of the match of \d{1,2}[/.-]\d{1,2}[/.-]\d{2,4} that starts
\* at i (greedy), or 0 when there is none.
DateEndAt(s, i) ==
    LET D(k) == k >= 1 /\ k <= Len(s) /\ isdigit(s[k])
        S(k) == k >= 1 /\ k <= Len(s) /\ IsSep(s[k])
        \* index after the \d{1,2} that starts at k, or 0
        Num(k) == IF D(k) /\ D(k+1) /\ S(k+2) THEN k + 2
                  ELSE IF D(k) /\ S(k+1) THEN k + 1
                  ELSE 0
        a == Num(i)
        b == IF a = 0 THEN 0 ELSE Num(a + 1)
        c == b + 1
    IN  IF a = 0 \/ b = 0 THEN 0
        ELSE IF D(c) /\ D(c+1) /\ D(c+2) /\ D(c+3) THEN c + 3
        ELSE IF D(c) /\ D(c+1) /\ D(c+2) THEN c + 2
        ELSE IF D(c) /\ D(c+1) THEN c + 1
        ELSE 0

HasDate(s) == \E i \in 1..Len(s) : DateEndAt(s, i) # 0

\* re.search(date).group(1): the leftmost match
FirstDate(s) ==
    LET i == SetMin({k \in 1..Len(s) : DateEndAt(s, k) # 0})
    IN  SubSeq(s, i, DateEndAt(s, i))

\* s[i..j-1] matches \d*\s*
DigitsThenSpaces(s, i, j) ==
    \E k \in i..j :
        /\ \A m \in i..(k-1) : isdigit(s[m])
        /\ \A m \in k..(j-1) : isspace(s[m])

\* re.search(r'\d+\s*%', s)
HasPercentNumber(s) ==
    \E i \in 1..Len(s) : \E j \in (i+1)..Len(s) :
        isdigit(s[i]) /\ s[j] = "%" /\ DigitsThenSpaces(s, i + 1, j)

\* The indices at which (RUPEE|Rs\.?) ends in s (case-sensitive)
CurrencyEnds(s) ==
    {i \in 1..Len(s) :
        \/ s[i] = RUPEE
        \/ OccursAt(s, <<"R","s">>, i - 1)
        \/ OccursAt(s, <<"R","s",".">>, i - 2)}

\* re.search(r'(RUPEE|Rs\.?)\s*\d+', s)
HasCurrencyNumber(s) ==
    \E i \in CurrencyEnds(s) : \E j \in (i+1)..Len(s) :
        isdigit(s[j]) /\ \A m \in (i+1)..(j-1) : isspace(s[m])

(***************************************************************************)
(* DefaultTextPostprocessor.postprocess                                    *)
(***************************************************************************)
title_word(w) ==
    IF Len(w) > 1 THEN upper_char(w[1]) \o lower(Tail(w)) ELSE upper(w)

postprocess_store(text) ==
    LET words == split(collapse_ws(strip(text)))
    IN  join([k \in 1..Len(words) |-> title_word(words[k])])

postprocess_code(text) ==
    LET u == upper(strip(text))
    IN  Pick(u, {i \in 1..Len(u) : u[i] \in Uppers \cup Digits})

postprocess_amount_unspaced(text) ==
    LET t1 == collapse_ws(strip(text))
        t3 == InsertSpaces(t1, {i \in 2..Len(t1) :
                                    isdigit(t1[i]) /\ (i - 1) \in CurrencyEnds(t1)}, 1)
    IN  t3

postprocess_amount(text) ==
    LET t1 == collapse_ws(strip(text))
        t2 == InsertSpaces(t1, {i \in 2..Len(t1) : t1[i] = "%" /\ isdigit(t1[i-1])}, 1)
        t3 == InsertSpaces(t2, {i \in 2..Len(t2) :
                                    isdigit(t2[i]) /\ (i - 1) \in CurrencyEnds(t2)}, 1)
    IN  t3

postprocess_expiry(text) ==
    LET t == collapse_ws(strip(text))
    IN  IF HasDate(t) THEN FirstDate(t) ELSE t

postprocess_description(text) ==
    LET t == collapse_ws(strip(text))
    IN  IF Len(t) > 0 THEN upper_char(t[1]) \o Tail(t) ELSE t

postprocess(text, region_type) ==
    IF text = <<>> THEN <<>>
    ELSE CASE region_type = "store"       -> postprocess_store(text)
           [] region_type = "code"        -> postprocess_code(text)
           [] region_type = "amount"      -> postprocess_amount(text)
           [] region_type = "expiry"      -> postprocess_expiry(text)
           [] region_type = "description" -> postprocess_description(text)
           [] OTHER                       -> text

(***************************************************************************)
(* DefaultConfidenceCalculator.calculate_confidence                        *)
(***************************************************************************)
W(a, b) == IF a THEN b ELSE 0

StoreWords == {<<"s","t","o","r","e">>, <<"s","h","o","p">>, <<"m","a","r","t">>,
               <<"m","a","r","k","e","t">>, <<"o","u","t","l","e","t">>}

AmountWords == {<<"o","f","f">>, <<"d","i","s","c","o","u","n","t">>,
                <<"c","a","s","h","b","a","c","k">>, <<"s","a","v","e">>}

ExpiryWords == {<<"e","x","p","i","r">>, <<"v","a","l","i","d">>,
                <<"t","i","l","l">>, <<"u","n","t","i","l">>}

DescriptionWords == {<<"g","e","t">>, <<"u","s","e">>, <<"a","p","p","l","y">>,
                     <<"o","f","f","e","r">>, <<"d","e","a","l">>,
                     <<"d","i","s","c","o","u","n","t">>}

NotAlnumNorSpace(c) == ~isalnum(c) /\ ~isspace(c)

IsPlainSpace(c) == c = " "

bonus_store(text) ==
    LET words == split(text)
    IN    W(\E k \in 1..Len(words) : Len(words[k]) > 1 /\ isupper(words[k][1]), 20)
        + W(Len(text) < 20, 10)
        + W(3 * Len(SelectSeq(text, isdigit)) < Len(text), 10)
        + W(ContainsAnyCI(text, StoreWords), 10)

bonus_code(text) ==
      W(\A i \in 1..Len(text) : isalnum(text[i]) \/ isspace(text[i]), 20)
    + W(Len(text) - Len(SelectSeq(text, IsPlainSpace)) >= 5, 10)
    + W((\E i \in 1..Len(text) : isalpha(text[i]))
            /\ (\E i \in 1..Len(text) : isdigit(text[i])), 10)
    + W(Len(SelectSeq(text, NotAlnumNorSpace)) <= 1, 10)

bonus_amount(text) ==
      W(\E i \in 1..Len(text) : isdigit(text[i]), 20)
    + W(\E i \in 1..Len(text) : text[i] \in {RUPEE, "$", "%"}, 20)
    + W(ContainsAnyCI(text, AmountWords), 10)
    + W(HasPercentNumber(text), 20)
    + W(HasCurrencyNumber(text), 20)

bonus_expiry(text) ==
      W(\E i \in 1..Len(text) : isdigit(text[i]), 20)
    + W(\E i \in 1..Len(text) : IsSep(text[i]), 10)
    + W(ContainsAnyCI(text, ExpiryWords), 20)
    + W(HasDate(text), 30)

bonus_description(text) ==
      W(Len(text) > 10, 10)
    + W(Len(split(text)) > 3, 10)
    + W(\E i \in 1..Len(text) : isalpha(text[i]), 10)
    + W(ContainsAnyCI(text, DescriptionWords), 10)

\* The bonuses the field type adds to the base score
bonus(text, region_type) ==
    CASE region_type = "store"       -> bonus_store(text)
      [] region_type = "code"        -> bonus_code(text)
      [] region_type = "amount"      -> bonus_amount(text)
      [] region_type = "expiry"      -> bonus_expiry(text)
      [] region_type = "description" -> bonus_description(text)
      [] OTHER                       -> 0

BASE_SCORE == 50

SCORE_CAP == 100

calculate_confidence_uncapped(text, region_type) ==
    IF text = <<>> THEN 0 ELSE BASE_SCORE + bonus(text, region_type)

calculate_confidence(text, region_type) ==
    IF text = <<>> THEN 0
    ELSE Min2(BASE_SCORE + bonus(text, region_type), SCORE_CAP)

(***************************************************************************)
(* Inputs                                                                  *)
(***************************************************************************)
\* Bounds of the model
ImageWidth == 4

ImageHeight == 4

MaxRegions == 2

Unreadable == [readable |-> FALSE, width |-> 0, height |-> 0]

\* ResourceManager's default config['image_size_limit']
IMAGE_SIZE_LIMIT == [width |-> 1920, height |-> 1080]

\* An image twice as wide as the limit allows
LargeImage ==
    [readable |-> TRUE, width |-> 2 * IMAGE_SIZE_LIMIT.width, height |-> ImageHeight]

Images == {Unreadable,
           [readable |-> TRUE, width |-> ImageWidth, height |-> ImageHeight]}

\* A region dict; ok = FALSE is a region dict that lacks one of its four keys.
Region(l, t, r, b) == [ok |-> TRUE, left |-> l, top |-> t, right |-> r, bottom |-> b]

ValidRegion == Region(0, 0, 2, 2)

\* left > right, although numpy's slice 2:-1 of the image is not empty
ReversedRegion == Region(2, 0, 0 - 1, 2)

OutsideRegion == Region(ImageWidth + 2, 0, ImageWidth + 4, 2)

MalformedRegion == [ok |-> FALSE, left |-> 0, top |-> 0, right |-> 0, bottom |-> 0]

RegionPool == {ValidRegion, ReversedRegion, OutsideRegion, MalformedRegion}

FieldTypes == {"store", "code", "amount", "expiry", "description", "unknown"}

RunTypes == {"code", "amount"}

RECURSIVE SeqsUpTo(_, _)
\* The sequences over S of length at most n
SeqsUpTo(S, n) ==
    IF n = 0 THEN {<<>>}
    ELSE LET shorter == SeqsUpTo(S, n - 1)
         IN  shorter \cup {Append(q, x) : q \in {q \in shorter : Len(q) = n - 1}, x \in S}

RegionLists == SeqsUpTo(RegionPool, MaxRegions)

OneTypeMaps == {<<[type |-> t, list |-> l]>> : t \in RunTypes, l \in RegionLists}

TwoTypeMaps ==
    {m \in {<<[type |-> t1, list |-> l1], [type |-> t2, list |-> l2]>> :
                t1 \in RunTypes, t2 \in RunTypes,
                l1 \in RegionLists, l2 \in RegionLists} :
        m[1].type # m[2].type /\ Len(m[1].list) + Len(m[2].list) <= MaxRegions}

\* The region dicts with at most two types and at most MaxRegions regions in all
RegionMaps == {<<>>} \cup OneTypeMaps \cup TwoTypeMaps

\* What one invocation of the OCR engine does: it raises, or it returns a
\* (stripped) text.
Raise == [kind |-> "raise", text |-> <<>>]

Text(t) == [kind |-> "text", text |-> t]

\* a coupon code of 16 characters
LongCode == <<"A","B","1","2","C","D","3","4","E","F","5","6","G","H","7","8">>

OcrTexts == {<<>>, <<"A">>, LongCode, <<"5","%">>}

OcrOutcomes == {Raise} \cup {Text(t) : t \in OcrTexts}

(***************************************************************************)
(* numpy slicing: image[top:bottom, left:right]                            *)
(***************************************************************************)
\* slice(a, b).indices(n): the number of indices selected
slice_len(a, b, n) ==
    LET norm(x) == IF x < 0 THEN (IF x + n < 0 THEN 0 ELSE x + n)
                   ELSE (IF x > n THEN n ELSE x)
    IN  IF norm(b) > norm(a) THEN norm(b) - norm(a) ELSE 0

CHANNELS == 3

roi_size(img, region) ==
    slice_len(region.top, region.bottom, img.height)
        * slice_len(region.left, region.right, img.width) * CHANNELS

\* ResourceManager.resize_image_if_needed.  scale is min(max_width / width,
\* max_height / height) and the new dimensions are int(width * scale) and
\* int(height * scale); the quotients are powers of two for the images of the
\* model, so the float products are exact.
resize_image_if_needed(img) ==
    IF img.width > IMAGE_SIZE_LIMIT.width \/ img.height > IMAGE_SIZE_LIMIT.height
      THEN IF IMAGE_SIZE_LIMIT.width * img.height <= IMAGE_SIZE_LIMIT.height * img.width
             THEN [readable |-> TRUE,
                   width  |-> (img.width * IMAGE_SIZE_LIMIT.width) \div img.width,
                   height |-> (img.height * IMAGE_SIZE_LIMIT.width) \div img.width]
             ELSE [readable |-> TRUE,
                   width  |-> (img.width * IMAGE_SIZE_LIMIT.height) \div img.height,
                   height |-> (img.height * IMAGE_SIZE_LIMIT.height) \div img.height]
      ELSE img

invalid_region_by_height(region) == region.top >= region.bottom

\* "Skip if region is invalid"
invalid_region(region) == region.left >= region.right \/ region.top >= region.bottom

(***************************************************************************)
(* error_recovery.retry                                                    *)
(***************************************************************************)
MAX_ATTEMPTS == 3

DELAY == 1

BACKOFF == 2

retry_gives_up_early(att, outcome) ==
    IF att >= MAX_ATTEMPTS THEN [act |-> "none", attempt |-> att]
    ELSE IF outcome.kind = "text" THEN [act |-> "return", attempt |-> att]
    ELSE IF att + 1 >= MAX_ATTEMPTS - 1 THEN [act |-> "raise", attempt |-> att + 1]
    ELSE [act |-> "again", attempt |-> att + 1]

retry_once_more(att, outcome) ==
    IF att >= MAX_ATTEMPTS + 1 THEN [act |-> "none", attempt |-> att]
    ELSE IF outcome.kind = "text" THEN [act |-> "return", attempt |-> att]
    ELSE IF att + 1 >= MAX_ATTEMPTS + 1 THEN [act |-> "raise", attempt |-> att + 1]
    ELSE [act |-> "again", attempt |-> att + 1]

\* One pass of the wrapper's while loop, func ending with outcome:
\* return its text, re-raise its exception, or sleep and go round again.
retry(att, outcome) ==
    IF att >= MAX_ATTEMPTS THEN [act |-> "none", attempt |-> att]
    ELSE IF outcome.kind = "text" THEN [act |-> "return", attempt |-> att]
    ELSE IF att + 1 >= MAX_ATTEMPTS THEN [act |-> "raise", attempt |-> att + 1]
    ELSE [act |-> "again", attempt |-> att + 1]

IdleOut == [act |-> "idle", fails |-> 0, calls |-> 0, text |-> <<>>, func |-> Raise,
            slept |-> <<>>]

next_delay_linear(d) == d + BACKOFF

\* current_delay *= backoff
next_delay(d) == d * BACKOFF

\* The wrapper is entered: attempt = 0, current_delay = delay
WrapperEntered ==
    /\ attempt' = 0
    /\ current_delay' = DELAY
    /\ slept' = <<>>
    /\ w_calls' = 0
    /\ w_out' = [IdleOut EXCEPT !.act = "running"]

\* The wrapper invokes func once, which ends with outcome o.  w_out records how
\* the pass ended; when the wrapper returns or raises its locals are gone.
WrapperStep(o) ==
    LET r == retry(attempt, o)
        naps == IF r.act = "again" THEN Append(slept, current_delay) ELSE slept
    IN  /\ w_out' = [act |-> r.act, fails |-> r.attempt, calls |-> w_calls + 1,
                     text |-> IF r.act = "return" THEN o.text ELSE <<>>, func |-> o,
                     slept |-> naps]
        /\ IF r.act = "again"
             THEN /\ attempt' = r.attempt
                  /\ w_calls' = w_calls + 1
                  /\ slept' = naps
                  /\ current_delay' = next_delay(current_delay)
             ELSE /\ attempt' = 0
                  /\ w_calls' = 0
                  /\ slept' = <<>>
                  /\ current_delay' = DELAY

(***************************************************************************)
(* ErrorRecoveryHandler                                                    *)
(***************************************************************************)
DEFAULT_FALLBACK_METHODS ==
    <<"adaptive_threshold", "gaussian_blur", "sharpen", "histogram_equalization">>

FallbackConfigs == {DEFAULT_FALLBACK_METHODS, <<"sharpen">>}

NoneResult == [text |-> <<>>, confidence |-> 0, method |-> "none"]

ErrorResult == [text |-> <<>>, confidence |-> 0, method |-> "error"]

DEFAULT_CONFIDENCE == 80

FALLBACK_BASE == 30

FALLBACK_LEN_CAP == 70

FALLBACK_BONUS == 20

FALLBACK_CAP == 90

\* `if text and len(text) > 1`
nontrivial(text) == text # <<>> /\ Len(text) > 1

\* re.search(r'^[A-Z0-9]{4,}$', text)
IsCodeShape(text) ==
    Len(text) >= 4 /\ \A i \in 1..Len(text) : text[i] \in Uppers \cup Digits

\* re.search(r'(?i)(\d+%|RUPEE\s*\d+|\d+\s*off)', text)
IsAmountShape(text) ==
    \/ \E i \in 1..(Len(text) - 1) : isdigit(text[i]) /\ text[i+1] = "%"
    \/ \E i \in 1..Len(text) : \E j \in (i+1)..Len(text) :
            text[i] = RUPEE /\ isdigit(text[j])
            /\ \A m \in (i+1)..(j-1) : isspace(text[m])
    \/ \E i \in 1..Len(text) : \E j \in (i+1)..Len(text) :
            isdigit(text[i]) /\ OccursAt(lower(text), <<"o","f","f">>, j)
            /\ DigitsThenSpaces(text, i + 1, j)

fallback_bonus(text, region_type) ==
    IF region_type = "code" /\ IsCodeShape(text) THEN FALLBACK_BONUS
    ELSE IF region_type = "amount" /\ IsAmountShape(text) THEN FALLBACK_BONUS
    ELSE IF region_type = "expiry" /\ HasDate(text) THEN FALLBACK_BONUS
    ELSE 0

\* The confidence of a fallback method's text (lines 232-244)
fallback_confidence(text, region_type) ==
    Min2(Min2(FALLBACK_LEN_CAP, FALLBACK_BASE + 2 * Len(text))
            + fallback_bonus(text, region_type),
         FALLBACK_CAP)

sorted_first_unstable(rs) ==
    rs[SetMax({i \in 1..Len(rs) : \A j \in 1..Len(rs) :
                    rs[j].confidence <= rs[i].confidence})]

\* results.sort(key=confidence, reverse=True); results[0]   (the sort is stable)
sorted_first(rs) ==
    rs[SetMin({i \in 1..Len(rs) : \A j \in 1..Len(rs) :
                    rs[j].confidence <= rs[i].confidence})]

cascade_result_error_when_empty(rs) == IF rs # <<>> THEN sorted_first(rs) ELSE ErrorResult

\* What extract_text_with_fallbacks returns when its loop is over
cascade_result(rs) == IF rs # <<>> THEN sorted_first(rs) ELSE NoneResult

(***************************************************************************)
(* The loop of process_image, shared by the recognizers                    *)
(***************************************************************************)
CurType == regions[ti].type

CurList == regions[ti].list

CurRegion == CurList[ri]

\* A returned dict: the keys it holds, and under them the per-type entries
\* (results, confidence and methods are parallel dicts with the same keys, kept
\* here as one sequence of entries in insertion order).
DictBare(keys, entries) == [keys |-> {}, entries |-> entries]

Dict(keys, entries) == [keys |-> keys, entries |-> entries]

\* `return {}`
EmptyDict == [keys |-> {}, entries |-> <<>>]

NotReturned == [keys |-> {"pending"}, entries |-> <<>>]

latest(b, result) == result

\* "If better than current best, update"
better(b, result) == IF result.confidence > b.confidence THEN result ELSE b

RetryIdle ==
    /\ attempt' = 0
    /\ current_delay' = DELAY
    /\ slept' = <<>>
    /\ w_calls' = 0
    /\ w_out' = IdleOut

\* process_region is entered: its locals are fresh
RegionEntered ==
    /\ ocr_calls' = 0
    /\ midx' = 0
    /\ fresults' = <<>>
    /\ stages' = <<>>

next_region_unless_failed(i, exc) == IF exc THEN Len(CurList) + 1 ELSE i + 1

\* `for region in region_list`: the loop goes on to the next region, whether or
\* not process_region had to catch an exception
next_region(i, exc) == i + 1

\* process_region returned result to the loop of process_image
FinishRegion(result, ocr, stg, exc) ==
    /\ cands' = Append(cands, [region |-> CurRegion, res |-> result,
                               touched |-> (ocr > 0 \/ stg # <<>>), exc |-> exc])
    /\ best' = IF mode = "region" THEN best ELSE better(best, result)
    /\ ri' = next_region(ri, exc)
    /\ UNCHANGED <<ti, results>>

(***************************************************************************)
(* ErrorRecoveryHandler.process_image / process_region /                   *)
(* extract_text_with_fallbacks                                             *)
(***************************************************************************)
AfterHandler == IF mode \in {"improved", "batch"} THEN "t_load" ELSE "done"

\* mode "region" is a call of process_region itself, for one region
AfterRegion == IF mode = "region" THEN "done" ELSE "h_region"

\* The log of OCR invocations of the current region: a run of one region counts
\* them, a run over an image records only that there was one
tick(n) == IF mode = "region" THEN n + 1 ELSE 1

\* "Store results"
handler_store(rs, region_type, b) ==
    IF b.text # <<>>
      THEN Append(rs, [type |-> region_type, text |-> b.text,
                       confidence |-> b.confidence, method |-> b.method])
      ELSE rs

\* cv2.imread gives None: `return {}`
H_Unreadable ==
    /\ pc = "h_load"
    /\ ~image.readable
    /\ h_ret' = EmptyDict
    /\ pc' = AfterHandler
    /\ UNCHANGED <<envVars, loopVars, retryVars, extractVars, ocr_used, sideVars,
                   t_ret, i_ret, rm_ret, raised>>

H_Load ==
    /\ pc = "h_load"
    /\ image.readable
    /\ cv_image' = image
    /\ ti' = 1 /\ ri' = 1 /\ results' = <<>> /\ cands' = <<>> /\ best' = NoneResult
    /\ pc' = "h_type"
    /\ UNCHANGED <<envVars, retryVars, extractVars, ocr_used, futures, cleanups,
                   invoked, retVars,
                   memVars, batchVars>>

\* `for region_type, region_list in regions.items()`: the next type
H_Type ==
    /\ pc = "h_type"
    /\ ti <= Len(regions)
    /\ best' = NoneResult /\ ri' = 1 /\ cands' = <<>>
    /\ pc' = "h_region"
    /\ UNCHANGED <<envVars, ti, results, retryVars, extractVars,
                   ocr_used, sideVars, retVars>>

\* the loop over the types is over: return the three dicts
H_Return ==
    /\ pc = "h_type"
    /\ ti > Len(regions)
    /\ h_ret' = Dict({"results", "confidence", "methods"}, results)
    /\ pc' = AfterHandler
    /\ UNCHANGED <<envVars, loopVars, retryVars, extractVars, ocr_used, sideVars,
                   t_ret, i_ret, rm_ret, raised>>

\* the loop over the type's regions is over: "Store results"
H_EndType ==
    /\ pc = "h_region"
    /\ ri > Len(CurList)
    /\ results' = handler_store(results, CurType, best)
    /\ ti' = ti + 1
    /\ pc' = "h_type"
    /\ RegionEntered /\ RetryIdle
    /\ UNCHANGED <<envVars, ri, best, cands, ocr_used, sideVars, retVars>>

\* process_region on a region dict without one of its keys: KeyError, caught
H_RegionMalformed ==
    /\ pc = "h_region"
    /\ ri <= Len(CurList)
    /\ ~CurRegion.ok
    /\ RegionEntered /\ RetryIdle
    /\ FinishRegion(ErrorResult, 0, <<>>, TRUE)
    /\ pc' = AfterRegion
    /\ UNCHANGED <<envVars, ocr_used, sideVars, retVars>>

\* process_region: "Skip if region is invalid", "Skip if region is empty"
H_RegionSkipped ==
    /\ pc = "h_region"
    /\ ri <= Len(CurList)
    /\ CurRegion.ok
    /\ invalid_region(CurRegion) \/ roi_size(cv_image, CurRegion) = 0
    /\ RegionEntered /\ RetryIdle
    /\ FinishRegion(NoneResult, 0, <<>>, FALSE)
    /\ pc' = AfterRegion
    /\ UNCHANGED <<envVars, ocr_used, sideVars, retVars>>

\* process_region calls extract_text_with_fallbacks, whose conversion of the
\* region to a PIL image (line 192, outside every try of the function) raises:
\* process_region catches it
H_ConvertRaises ==
    /\ pc = "h_region"
    /\ ri <= Len(CurList)
    /\ CurRegion.ok
    /\ ~invalid_region(CurRegion) /\ roi_size(cv_image, CurRegion) # 0
    /\ RegionEntered /\ RetryIdle
    /\ FinishRegion(ErrorResult, 0, <<"convert">>, TRUE)
    /\ pc' = AfterRegion
    /\ UNCHANGED <<envVars, ocr_used, sideVars, retVars>>

\* ... or the conversion succeeds and the initial attempt starts
H_Extract ==
    /\ pc = "h_region"
    /\ ri <= Len(CurList)
    /\ CurRegion.ok
    /\ ~invalid_region(CurRegion) /\ roi_size(cv_image, CurRegion) # 0
    /\ ocr_calls' = 0 /\ midx' = 0 /\ fresults' = <<>> /\ stages' = <<"convert">>
    /\ WrapperEntered
    /\ pc' = "h_primary"
    /\ UNCHANGED <<envVars, loopVars, ocr_used, sideVars, retVars>>

\* The cascade starts with the first fallback method
CascadeEntered ==
    /\ midx' = 1
    /\ fresults' = <<>>
    /\ pc' = "h_method"
    /\ UNCHANGED <<loopVars, stages>>

primary_accepts_any(r, o) ==
    IF r.act = "return" THEN "accept"
    ELSE IF r.act = "raise" THEN "cascade"
    ELSE "again"

\* What follows one pass of the initial attempt's wrapper: the text is returned
\* (`if text and len(text) > 1`), the fallback methods are tried, or the
\* wrapper calls the OCR engine again
primary_next(r, o) ==
    IF r.act = "return" THEN (IF nontrivial(o.text) THEN "accept" ELSE "cascade")
    ELSE IF r.act = "raise" THEN "cascade"
    ELSE "again"

\* "Initial attempt": one invocation of the OCR engine under the retry wrapper
H_PrimaryOcr ==
    /\ pc = "h_primary"
    /\ \E o \in OcrOutcomes :
        LET r == retry(attempt, o)
        IN  /\ WrapperStep(o)
            /\ ocr_calls' = tick(ocr_calls)
            /\ ocr_used' = TRUE
            /\ CASE primary_next(r, o) = "accept" ->
                       /\ FinishRegion([text |-> o.text, confidence |-> DEFAULT_CONFIDENCE,
                                        method |-> "default"],
                                       ocr_calls + 1, stages, FALSE)
                       /\ pc' = AfterRegion
                       /\ UNCHANGED <<midx, fresults, stages>>
                 [] primary_next(r, o) = "cascade" -> CascadeEntered
                 [] OTHER -> UNCHANGED <<pc, loopVars, midx, fresults, stages>>
    /\ UNCHANGED <<envVars, sideVars, retVars>>

next_method_unless_accepted(i, rs) ==
    IF \E k \in 1..Len(rs) : rs[k].confidence > 30 THEN Len(methods) + 1 ELSE i + 1

\* `for method in fallback_methods`: the loop goes on to the next method,
\* whatever the results so far
next_method(i, rs) == i + 1

\* The fallback loop is over: return the best result, or the empty one
H_CascadeDone ==
    /\ pc = "h_method"
    /\ midx > Len(methods)
    /\ FinishRegion(cascade_result(fresults), ocr_calls, stages, FALSE)
    /\ pc' = AfterRegion
    /\ RetryIdle
    /\ UNCHANGED <<envVars, extractVars, ocr_used, sideVars, retVars>>

\* apply_preprocessing (or the conversion after it) raises: the method is skipped
H_MethodRaises ==
    /\ pc = "h_method"
    /\ midx <= Len(methods)
    /\ stages' = Append(stages, "preprocess")
    /\ midx' = next_method(midx, fresults)
    /\ RetryIdle
    /\ UNCHANGED <<pc, envVars, loopVars, ocr_calls, fresults,
                   ocr_used, sideVars, retVars>>

\* apply_preprocessing succeeds: the OCR call of the method starts
H_Method ==
    /\ pc = "h_method"
    /\ midx <= Len(methods)
    /\ stages' = Append(stages, "preprocess")
    /\ WrapperEntered
    /\ pc' = "h_ocr"
    /\ UNCHANGED <<envVars, loopVars, ocr_calls, midx, fresults,
                   ocr_used, sideVars, retVars>>

\* One invocation of the OCR engine for the current fallback method
H_FallbackOcr ==
    /\ pc = "h_ocr"
    /\ \E o \in OcrOutcomes :
        LET r == retry(attempt, o)
        IN  /\ WrapperStep(o)
            /\ ocr_calls' = tick(ocr_calls)
            /\ ocr_used' = TRUE
            /\ CASE r.act = "return" ->
                       /\ fresults' = IF nontrivial(o.text)
                            THEN Append(fresults,
                                    [text |-> o.text,
                                     confidence |-> fallback_confidence(o.text, CurType),
                                     method |-> methods[midx]])
                            ELSE fresults
                       /\ midx' = next_method(midx, fresults')
                       /\ pc' = "h_method"
                 [] r.act = "raise" ->
                       /\ midx' = next_method(midx, fresults)
                       /\ pc' = "h_method"
                       /\ UNCHANGED fresults
                 [] OTHER -> UNCHANGED <<pc, midx, fresults>>
    /\ UNCHANGED <<envVars, loopVars, stages, sideVars, retVars>>

\* ErrorRecoveryHandler.process_region
NextRegion ==
    \/ H_RegionMalformed \/ H_RegionSkipped \/ H_ConvertRaises \/ H_Extract
    \/ H_PrimaryOcr \/ H_CascadeDone \/ H_MethodRaises \/ H_Method \/ H_FallbackOcr

LoopIdle ==
    /\ ti = 1 /\ ri = 1 /\ best = NoneResult /\ results = <<>> /\ cands = <<>>

ScratchIdle ==
    /\ attempt = 0 /\ current_delay = DELAY /\ slept = <<>> /\ w_calls = 0
    /\ w_out = IdleOut
    /\ ocr_calls = 0 /\ midx = 0 /\ fresults = <<>> /\ stages = <<>>

PureIdle == fn = "none" /\ inp = <<>> /\ out = <<>>

NoneInvoked ==
    [s \in {"preprocess", "ocr", "postprocess", "confidence", "raised"} |-> 0]

\* MemoryMonitor.__init__; the thread is not modelled in this run
MemoryIdle == current_memory = 0 /\ max_memory = 0 /\ memory_mb = 0 /\ monitor_pc = "off"

\* no batch is running
BatchIdle == image_paths = <<>> /\ bi = 0 /\ batch_results = <<>>

RunQuiet ==
    /\ ocr_used = FALSE
    /\ futures = <<>> /\ cleanups = 0 /\ invoked = NoneInvoked
    /\ h_ret = NotReturned /\ t_ret = NotReturned /\ i_ret = NotReturned
    /\ rm_ret = NotReturned
    /\ raised = FALSE

RunIdle == RunQuiet /\ MemoryIdle /\ BatchIdle

AdaptiveIdle == use_fixed = TRUE /\ detected = <<>>

InitH ==
    /\ mode = "handler"
    /\ pc = "h_load"
    /\ image \in Images
    /\ regions \in RegionMaps
    /\ methods = DEFAULT_FALLBACK_METHODS
    /\ LoopIdle /\ ScratchIdle /\ PureIdle /\ AdaptiveIdle
    /\ RunIdle /\ cv_image = Unreadable

\* handler.process_region(image, region, region_type) on a readable image
InitRegion ==
    /\ mode = "region"
    /\ pc = "h_region"
    /\ image \in {i \in Images : i.readable}
    /\ regions \in {<<[type |-> t, list |-> <<r>>]>> : t \in FieldTypes, r \in RegionPool}
    /\ methods \in FallbackConfigs
    /\ LoopIdle /\ ScratchIdle /\ PureIdle /\ AdaptiveIdle
    /\ RunIdle /\ cv_image = image

SpecRegion == InitRegion /\ [][NextRegion]_vars

(***************************************************************************)
(* CouponRecognizer (testable_coupon_recognizer.py)                        *)
(***************************************************************************)
EmptyResult == [text |-> <<>>, confidence |-> 0]

ACCEPT_THRESHOLD == 30

\* The stages of process_region, in the order it calls them
STAGES == <<"preprocess", "ocr", "postprocess", "confidence">>

StageNames == {STAGES[i] : i \in 1..Len(STAGES)}

StageIndex(s) == CHOOSE i \in 1..Len(STAGES) : STAGES[i] = s

\* The stages that were called when stage s raised
StagesUpTo(s) == SubSeq(STAGES, 1, StageIndex(s))

region_result_raw_score(text, region_type) ==
    [text |-> postprocess(text, region_type),
     confidence |-> calculate_confidence(text, region_type)]

\* process_region on a region that is worth reading, no stage raising:
\* postprocess the OCR text, then score the postprocessed text
region_result(text, region_type) ==
    LET processed_text == postprocess(text, region_type)
    IN  [text |-> processed_text,
         confidence |-> calculate_confidence(processed_text, region_type)]

\* The calls process_region makes on such a region, in order, each with the
\* text it is given and what it returns
region_calls(text, region_type) ==
    LET r == region_result(text, region_type)
    IN  <<[stage |-> "preprocess", arg |-> "roi", type |-> region_type,
           ret |-> "processed_roi"],
          [stage |-> "ocr", arg |-> "processed_roi", type |-> region_type,
           ret |-> text],
          [stage |-> "postprocess", arg |-> text, type |-> region_type,
           ret |-> r.text],
          [stage |-> "confidence", arg |-> r.text, type |-> region_type,
           ret |-> r.confidence]>>

\* The calls made when stage s raises
calls_until_raise(text, region_type, s) ==
    LET calls == region_calls(text, region_type)
    IN  [k \in 1..StageIndex(s) |->
            IF k = StageIndex(s) THEN [calls[k] EXCEPT !.ret = "raise"] ELSE calls[k]]

\* the run's invocation counts after one more region; they are kept for the
\* runs of CouponRecognizer.process_image itself
count_calls(inv, calls, exc) ==
    IF mode = "testable"
      THEN [s \in DOMAIN inv |->
              IF s = "raised" THEN inv[s] + (IF exc THEN 1 ELSE 0)
              ELSE inv[s] + Cardinality({k \in 1..Len(calls) : calls[k].stage = s})]
      ELSE inv

\* "If we found a good result, add it"
testable_store(rs, region_type, b) ==
    IF b.text # <<>> /\ b.confidence > ACCEPT_THRESHOLD
      THEN Append(rs, [type |-> region_type, text |-> b.text,
                       confidence |-> b.confidence])
      ELSE rs

AfterTestable == IF mode \in {"improved", "batch"} THEN "i_combine" ELSE "done"

\* image_loader.load_image raises: `return {'results': {}, 'confidence': {}}`
T_Unreadable ==
    /\ pc = "t_load"
    /\ ~image.readable
    /\ t_ret' = Dict({"results", "confidence"}, <<>>)
    /\ pc' = AfterTestable
    /\ UNCHANGED <<envVars, loopVars, retryVars, extractVars, ocr_used, sideVars,
                   h_ret, i_ret, rm_ret, raised>>

T_Load ==
    /\ pc = "t_load"
    /\ image.readable
    /\ cv_image' = image
    /\ ti' = 1 /\ ri' = 1 /\ results' = <<>> /\ cands' = <<>> /\ best' = EmptyResult
    /\ pc' = "t_type"
    /\ UNCHANGED <<envVars, retryVars, extractVars, ocr_used, futures, cleanups,
                   invoked, retVars,
                   memVars, batchVars>>

T_Type ==
    /\ pc = "t_type"
    /\ ti <= Len(regions)
    /\ best' = EmptyResult /\ ri' = 1 /\ cands' = <<>>
    /\ pc' = "t_region"
    /\ UNCHANGED <<envVars, ti, results, retryVars, extractVars, ocr_used, sideVars,
                   retVars>>

T_Return ==
    /\ pc = "t_type"
    /\ ti > Len(regions)
    /\ t_ret' = Dict({"results", "confidence"}, results)
    /\ pc' = AfterTestable
    /\ UNCHANGED <<envVars, loopVars, retryVars, extractVars, ocr_used, sideVars,
                   h_ret, i_ret, rm_ret, raised>>

\* "If we found a good result, add it"
T_EndType ==
    /\ pc = "t_region"
    /\ ri > Len(CurList)
    /\ results' = testable_store(results, CurType, best)
    /\ ti' = ti + 1
    /\ pc' = "t_type"
    /\ RegionEntered
    /\ UNCHANGED <<envVars, ri, best, cands, retryVars, ocr_used, sideVars, retVars>>

\* process_region on a region dict without one of its keys: KeyError, caught
T_RegionMalformed ==
    /\ pc = "t_region"
    /\ ri <= Len(CurList)
    /\ ~CurRegion.ok
    /\ RegionEntered
    /\ FinishRegion(EmptyResult, 0, <<>>, TRUE)
    /\ UNCHANGED <<pc, envVars, retryVars, ocr_used, sideVars, retVars>>

\* process_region: "Skip if region is invalid", "Skip if region is empty"
T_RegionSkipped ==
    /\ pc = "t_region"
    /\ ri <= Len(CurList)
    /\ CurRegion.ok
    /\ invalid_region(CurRegion) \/ roi_size(cv_image, CurRegion) = 0
    /\ RegionEntered
    /\ FinishRegion(EmptyResult, 0, <<>>, FALSE)
    /\ UNCHANGED <<pc, envVars, retryVars, ocr_used, sideVars, retVars>>

\* process_region: one of the stages raises, and the except clause answers
T_StageRaises ==
    /\ pc = "t_region"
    /\ ri <= Len(CurList)
    /\ CurRegion.ok
    /\ ~invalid_region(CurRegion) /\ roi_size(cv_image, CurRegion) # 0
    /\ \E s \in StageNames : \E t \in OcrTexts :
        /\ stages' = calls_until_raise(t, CurType, s)
        /\ invoked' = count_calls(invoked, stages', TRUE)
        /\ ocr_calls' = IF StageIndex(s) >= StageIndex("ocr") THEN 1 ELSE 0
        /\ ocr_used' = (ocr_used \/ StageIndex(s) >= StageIndex("ocr"))
        /\ FinishRegion(EmptyResult, IF StageIndex(s) >= StageIndex("ocr") THEN 1 ELSE 0,
                        StagesUpTo(s), TRUE)
    /\ UNCHANGED <<pc, envVars, retryVars, midx, fresults, futures, cleanups,
                   cv_image, retVars,
                   memVars, batchVars>>

\* process_region: preprocess, OCR, postprocess, score
T_ProcessRegion ==
    /\ pc = "t_region"
    /\ ri <= Len(CurList)
    /\ CurRegion.ok
    /\ ~invalid_region(CurRegion) /\ roi_size(cv_image, CurRegion) # 0
    /\ \E t \in OcrTexts :
        /\ stages' = region_calls(t, CurType)
        /\ invoked' = count_calls(invoked, stages', FALSE)
        /\ ocr_calls' = 1
        /\ ocr_used' = TRUE
        \* processed_text and confidence, as the calculator got and returned them
        /\ FinishRegion([text |-> stages'[4].arg, confidence |-> stages'[4].ret],
                        1, STAGES, FALSE)
    /\ UNCHANGED <<pc, envVars, retryVars, midx, fresults, futures, cleanups,
                   cv_image, retVars,
                   memVars, batchVars>>

InitT ==
    /\ mode = "testable"
    /\ pc = "t_load"
    /\ image \in Images \cup {LargeImage}
    /\ regions \in RegionMaps
    /\ methods = DEFAULT_FALLBACK_METHODS
    /\ LoopIdle /\ ScratchIdle /\ PureIdle /\ AdaptiveIdle
    /\ RunIdle /\ cv_image = Unreadable

(***************************************************************************)
(* ResourceManager.process_image / process_region / extract_text           *)
(***************************************************************************)
RmOcrOutcomes == OcrOutcomes \cup {Text(<<"7", "%">>)}

\* `for region_type, region_list in regions.items(): for i, region in ...`:
\* the tasks in the order they are submitted
RECURSIVE Tasks(_)
Tasks(rmap) ==
    IF rmap = <<>> THEN <<>>
    ELSE [i \in 1..Len(Head(rmap).list) |->
              [type |-> Head(rmap).type, region |-> Head(rmap).list[i],
               state |-> "pending", text |-> <<>>, exc |-> FALSE, rank |-> 0]]
         \o Tasks(Tail(rmap))

Completed == Cardinality({k \in 1..Len(futures) : futures[k].state = "done"})

\* extract_text: the engine's text, or "" when the engine raises
extract_text(o) == IF o.kind = "text" THEN o.text ELSE <<>>

\* The position of region_type among the keys of results, 0 if it is not there
KeyIndex(rs, region_type) ==
    IF \E k \in 1..Len(rs) : rs[k].type = region_type
      THEN CHOOSE k \in 1..Len(rs) : rs[k].type = region_type
      ELSE 0

\* "Collect results": one pass of the loop, with the text of one future
collect(rs, region_type, text) ==
    LET k == KeyIndex(rs, region_type)
    IN  IF text = <<>> THEN rs
        ELSE IF k = 0 THEN Append(rs, [type |-> region_type, text |-> text])
        ELSE IF Len(text) > Len(rs[k].text) THEN [rs EXCEPT ![k].text = text]
        ELSE rs

\* managed_image cannot read the file: ValueError leaves process_image
RM_Unreadable ==
    /\ pc = "rm_load"
    /\ ~image.readable
    /\ raised' = TRUE
    /\ pc' = "done"
    /\ UNCHANGED <<envVars, loopVars, retryVars, extractVars, ocr_used, sideVars,
                   h_ret, t_ret, i_ret, rm_ret>>

\* the image is resized if needed, then every region is submitted to the pool
RM_Submit ==
    /\ pc = "rm_load"
    /\ image.readable
    /\ cv_image' = resize_image_if_needed(image)
    /\ futures' = Tasks(regions)
    /\ ri' = 1 /\ results' = <<>>
    /\ pc' = "rm_collect"
    /\ UNCHANGED <<envVars, ti, best, cands, retryVars, extractVars, ocr_used,
                   cleanups, invoked, retVars,
                   memVars, batchVars>>

\* a worker runs process_region for a submitted task, in any order
RM_Task(k) ==
    /\ pc = "rm_collect"
    /\ futures[k].state = "pending"
    /\ LET region == futures[k].region
           skipped == \/ ~region.ok
                      \/ invalid_region(region)
                      \/ roi_size(cv_image, region) = 0
       IN  \E o \in RmOcrOutcomes :
            /\ futures' = [futures EXCEPT
                             ![k].state = "done",
                             ![k].rank = Completed + 1,
                             ![k].exc = (~region.ok \/ (~skipped /\ o.kind = "raise")),
                             ![k].text = IF skipped THEN <<>> ELSE extract_text(o)]
            /\ ocr_used' = (ocr_used \/ ~skipped)
    /\ UNCHANGED <<pc, envVars, loopVars, retryVars, extractVars, cleanups, invoked,
                   cv_image, retVars,
                   memVars, batchVars>>

next_completed(i) ==
    IF \E k \in 1..Len(futures) : futures[k].rank = i
      THEN CHOOSE k \in 1..Len(futures) : futures[k].rank = i
      ELSE i

\* `for (region_type, i), future in futures.items()`: the i-th future collected
\* is the i-th submitted
next_future(i) == i

\* `text = future.result()` waits for the task
RM_Collect ==
    /\ pc = "rm_collect"
    /\ ri <= Len(futures)
    /\ futures[next_future(ri)].state = "done"
    /\ results' = collect(results, futures[next_future(ri)].type,
                          futures[next_future(ri)].text)
    /\ ri' = ri + 1
    /\ UNCHANGED <<pc, envVars, ti, best, cands, retryVars, extractVars, ocr_used,
                   sideVars, retVars>>

RM_Return ==
    /\ pc = "rm_collect"
    /\ ri > Len(futures)
    /\ rm_ret' = Dict({results[k].type : k \in 1..Len(results)}, results)
    /\ pc' = "done"
    /\ UNCHANGED <<envVars, loopVars, retryVars, extractVars, ocr_used, sideVars,
                   h_ret, t_ret, i_ret, raised>>

InitRM ==
    /\ mode = "rm"
    /\ pc = "rm_load"
    /\ image \in Images \cup {LargeImage}
    /\ regions \in RegionMaps
    /\ methods = DEFAULT_FALLBACK_METHODS
    /\ LoopIdle /\ ScratchIdle /\ PureIdle /\ AdaptiveIdle
    /\ RunIdle /\ cv_image = Unreadable

(***************************************************************************)
(* AdaptivePatternRecognizer.process_image, as ImprovedCouponRecognizer    *)
(* uses it: the regions it identifies                                      *)
(***************************************************************************)
MaxDetected == 2

\* A detected text region (x, y, w, h), whether DBSCAN put it in a cluster, and
\* what the classification of its text gave (element type "none": no text, or
\* no type for the text)
Detection(x, y, w, h, c, t, conf) ==
    [x |-> x, y |-> y, w |-> w, h |-> h, clustered |-> c, type |-> t,
     confidence |-> conf]

DetectionPool ==
    {Detection(0, 0, 2, 2, TRUE, "code", 60),
     Detection(1, 2, 3, 2, TRUE, "code", 100),
     Detection(1, 2, 3, 2, TRUE, "amount", 100),
     Detection(0, 0, 2, 2, TRUE, "none", 0),
     Detection(1, 2, 3, 2, FALSE, "none", 0)}

Detections == SeqsUpTo(DetectionPool, MaxDetected)

\* analyze_layout: the classified regions of one element type, in order
Classified(ds, t) == SelectSeq(ds, LAMBDA d : d.clustered /\ d.type = t)

\* regions.sort(key=confidence, reverse=True); regions[0]
best_region(ds) ==
    ds[SetMin({i \in 1..Len(ds) : \A j \in 1..Len(ds) :
                    ds[j].confidence <= ds[i].confidence})]

\* the element types in the order classified_regions first saw them
RECURSIVE TypesSeen(_, _)
TypesSeen(ds, seen) ==
    IF ds = <<>> THEN <<>>
    ELSE LET d == Head(ds)
             new == d.clustered /\ d.type # "none" /\ d.type \notin seen
         IN  (IF new THEN <<d.type>> ELSE <<>>)
             \o TypesSeen(Tail(ds), IF new THEN seen \cup {d.type} ELSE seen)

\* identified_regions, converted to the region format (one region per type)
identified_regions(ds) ==
    LET ts == TypesSeen(ds, {})
    IN  [k \in 1..Len(ts) |->
            LET b == best_region(Classified(ds, ts[k]))
            IN  [type |-> ts[k],
                 list |-> <<Region(b.x, b.y, b.x + b.w, b.y + b.h)>>]]

(***************************************************************************)
(* ImprovedCouponRecognizer.process_image                                  *)
(***************************************************************************)
Lookup(d, t) == SelectSeq(d.entries, LAMBDA e : e.type = t)

TypesOf(d) == [k \in 1..Len(d.entries) |-> d.entries[k].type]

\* all_element_types (a set: the order of the keys is not modelled)
all_element_types(e, t) ==
    TypesOf(e) \o SelectSeq(TypesOf(t), LAMBDA x : Lookup(e, x) = <<>>)

\* .get('confidence', {}).get(element_type, 0.0)
confidence_of(d, t) == IF Lookup(d, t) = <<>> THEN 0 ELSE Lookup(d, t)[1].confidence

\* .get('results', {}).get(element_type, "")
text_of(d, t) == IF Lookup(d, t) = <<>> THEN <<>> ELSE Lookup(d, t)[1].text

\* "Choose result with higher confidence"
choose(e, t, x) ==
    IF confidence_of(e, x) >= confidence_of(t, x)
      THEN [type |-> x, text |-> text_of(e, x), confidence |-> confidence_of(e, x)]
      ELSE [type |-> x, text |-> text_of(t, x), confidence |-> confidence_of(t, x)]

\* "Combine results, preferring higher confidence"
combine(e, t) ==
    LET ts == all_element_types(e, t)
    IN  [k \in 1..Len(ts) |-> choose(e, t, ts[k])]

\* process_image returns to batch_process, or to the caller of the run
AfterImproved == IF mode = "batch" THEN "b_store" ELSE "done"

\* managed_image raises ValueError: the except clause answers, cleanup runs
I_Unreadable ==
    /\ pc = "i_load"
    /\ ~image.readable
    /\ i_ret' = Dict({"results", "confidence", "processing_time", "error"}, <<>>)
    /\ cleanups' = cleanups + 1
    /\ pc' = AfterImproved
    /\ UNCHANGED <<envVars, loopVars, retryVars, extractVars, ocr_used, futures,
                   invoked, cv_image, h_ret, t_ret, rm_ret, raised,
                   memVars, batchVars>>

\* "Stage 1: Detect regions", from config['pattern_regions']
I_Fixed ==
    /\ pc = "i_load"
    /\ image.readable
    /\ use_fixed
    /\ pc' = "h_load"
    /\ UNCHANGED <<envVars, loopVars, retryVars, extractVars, ocr_used, sideVars,
                   retVars>>

\* "Stage 1: Detect regions", with the adaptive pattern recognizer, which reads
\* the text of every clustered region to classify it
I_Adaptive ==
    /\ pc = "i_load"
    /\ image.readable
    /\ ~use_fixed
    /\ regions' = identified_regions(detected)
    /\ ocr_used' = \E k \in 1..Len(detected) : detected[k].clustered
    /\ pc' = "h_load"
    /\ UNCHANGED <<mode, pureVars, image, methods, use_fixed, detected, loopVars,
                   retryVars, extractVars, sideVars, retVars>>

\* stages 2 and 3 have returned: combine, return, and clean up (finally)
I_Combine ==
    /\ pc = "i_combine"
    /\ i_ret' = Dict({"results", "confidence", "processing_time"}, combine(h_ret, t_ret))
    /\ cleanups' = cleanups + 1
    /\ pc' = AfterImproved
    /\ UNCHANGED <<envVars, loopVars, retryVars, extractVars, ocr_used, futures,
                   invoked, cv_image, h_ret, t_ret, rm_ret, raised,
                   memVars, batchVars>>

PatternMaps == {m \in RegionMaps : \A k \in 1..Len(m) : Len(m[k].list) <= 1}

InitI ==
    /\ mode = "improved"
    /\ pc = "i_load"
    /\ image \in Images
    /\ methods = DEFAULT_FALLBACK_METHODS
    /\ \/ use_fixed = TRUE /\ regions \in PatternMaps /\ detected = <<>>
       \/ use_fixed = FALSE /\ regions = <<>> /\ detected \in Detections
    /\ LoopIdle /\ ScratchIdle /\ PureIdle
    /\ RunIdle /\ cv_image = Unreadable

(***************************************************************************)
(* The confidence functions, applied to bounded inputs                     *)
(***************************************************************************)
MaxTextLen == 3

MaxMatchLen == 4

Alphabet == {"A", "b", "5", "%", " ", "/", RUPEE}

SampleTexts ==
    {<<RUPEE, "5", "%", "o", "f", "f">>,
     <<"5", "0", "%", " ", "O", "F", "F">>,
     <<"S", "A", "V", "E", "2", "0">>,
     <<"1", "/", "2", "/", "2", "5">>,
     <<"B", "i", "g", " ", "M", "a", "r", "t">>,
     <<"G", "e", "t", " ", "a", " ", "b", "i", "g", " ", "d", "e", "a", "l">>}

PureTexts == SeqsUpTo(Alphabet, MaxTextLen) \cup SampleTexts

\* classify_text_content: the confidence of a pattern's match of match_len
\* characters that starts at start in a text of text_len characters, as the
\* exact fraction num/den of hundredths
classifier_confidence(text_len, start, match_len) ==
    [num |-> 80 * match_len * (text_len - start) + 20 * text_len * text_len,
     den |-> text_len * text_len]

PureInputs ==
    ({[text |-> t, type |-> ty, text_len |-> 0, start |-> 0, match_len |-> 0] :
        t \in PureTexts, ty \in FieldTypes}
    \cup
    {[text |-> <<>>, type |-> "unknown", text_len |-> n, start |-> s, match_len |-> m] :
        n \in 1..MaxMatchLen, s \in 0..MaxMatchLen, m \in 0..MaxMatchLen})
    \ {i \in [text : {<<>>}, type : {"unknown"}, text_len : 1..MaxMatchLen,
               start : 0..MaxMatchLen, match_len : 0..MaxMatchLen] :
            i.start + i.match_len > i.text_len}

Whole(n) == [num |-> n, den |-> 1]

P_CalculateConfidence ==
    /\ pc = "p_apply"
    /\ inp.text_len = 0
    /\ fn' = "calculate_confidence"
    /\ out' = Whole(calculate_confidence(inp.text, inp.type))
    /\ pc' = "done"
    /\ UNCHANGED <<mode, inp, inputVars, use_fixed, detected, loopVars, retryVars,
                   extractVars, ocr_used, sideVars, retVars>>

\* the fallback cascade scores only the texts it keeps: `if text and len(text) > 1`
P_FallbackConfidence ==
    /\ pc = "p_apply"
    /\ inp.text_len = 0
    /\ nontrivial(inp.text)
    /\ fn' = "fallback_confidence"
    /\ out' = Whole(fallback_confidence(inp.text, inp.type))
    /\ pc' = "done"
    /\ UNCHANGED <<mode, inp, inputVars, use_fixed, detected, loopVars, retryVars,
                   extractVars, ocr_used, sideVars, retVars>>

\* a match lies inside the text
P_ClassifierConfidence ==
    /\ pc = "p_apply"
    /\ inp.text_len > 0
    /\ inp.start + inp.match_len <= inp.text_len
    /\ fn' = "classifier_confidence"
    /\ out' = classifier_confidence(inp.text_len, inp.start, inp.match_len)
    /\ pc' = "done"
    /\ UNCHANGED <<mode, inp, inputVars, use_fixed, detected, loopVars, retryVars,
                   extractVars, ocr_used, sideVars, retVars>>

NextPure == P_CalculateConfidence \/ P_FallbackConfidence \/ P_ClassifierConfidence

InitPure ==
    /\ mode = "pure"
    /\ pc = "p_apply"
    /\ fn = "none" /\ inp \in PureInputs /\ out = <<>>
    /\ image = Unreadable /\ regions = <<>> /\ methods = DEFAULT_FALLBACK_METHODS
    /\ LoopIdle /\ ScratchIdle /\ AdaptiveIdle
    /\ RunIdle /\ cv_image = Unreadable

SpecPure == InitPure /\ [][NextPure]_vars

(***************************************************************************)
(* The arbitration of process_image, applied to the candidates of one      *)
(* field type in two orders                                                *)
(***************************************************************************)
\* `for region in region_list: ... if result['confidence'] > best_result[...]`
RECURSIVE best_of(_, _)
best_of(cs, b) == IF cs = <<>> THEN b ELSE best_of(Tail(cs), better(b, Head(cs)))

\* ResourceManager: "Collect results" over the texts of one type
RECURSIVE collect_all(_, _, _)
collect_all(rs, region_type, texts) ==
    IF texts = <<>> THEN rs
    ELSE collect_all(collect(rs, region_type, Head(texts)), region_type, Tail(texts))

\* What process_image reports for the field, the candidates coming in this order
field_result(recognizer, region_type, cs) ==
    CASE recognizer = "testable" ->
            testable_store(<<>>, region_type, best_of(cs, EmptyResult))
      [] recognizer = "handler" ->
            handler_store(<<>>, region_type, best_of(cs, NoneResult))
      [] OTHER ->
            collect_all(<<>>, region_type, [k \in 1..Len(cs) |-> cs[k].text])

\* The candidates process_region can hand to the loop
TestableCandidates(region_type) ==
    {region_result(t, region_type) : t \in OcrTexts} \cup {EmptyResult}

HandlerCandidates(region_type) ==
    {NoneResult, ErrorResult}
    \cup {[text |-> t, confidence |-> DEFAULT_CONFIDENCE, method |-> "default"] :
            t \in {x \in OcrTexts : nontrivial(x)}}
    \cup {[text |-> t, confidence |-> fallback_confidence(t, region_type),
           method |-> DEFAULT_FALLBACK_METHODS[1]] :
            t \in {x \in OcrTexts : nontrivial(x)}}

RmCandidates == {[text |-> extract_text(o)] : o \in RmOcrOutcomes}

Perms(n) ==
    {p \in [1..n -> 1..n] : \A i \in 1..n : \A j \in 1..n : p[i] = p[j] => i = j}

Permute(s, p) == [i \in 1..Len(s) |-> s[p[i]]]

Candidates(recognizer, region_type) ==
    CASE recognizer = "testable" -> TestableCandidates(region_type)
      [] recognizer = "handler"  -> HandlerCandidates(region_type)
      [] OTHER                   -> RmCandidates

\* A region list of MaxRegions regions, by the candidates they give, and a
\* reordering of it
OrderInputs ==
    UNION {{[recognizer |-> rec, type |-> ty, cands |-> cs, perm |-> p] :
                cs \in [1..MaxRegions -> Candidates(rec, ty)],
                p \in Perms(MaxRegions)} :
           rec \in {"testable", "handler", "rm"}, ty \in RunTypes}

\* the same candidates, in the order given and in the permuted order
O_Arbitrate ==
    /\ pc = "o_apply"
    /\ fn' = "field_result"
    /\ out' = [first  |-> field_result(inp.recognizer, inp.type, inp.cands),
               second |-> field_result(inp.recognizer, inp.type,
                                       Permute(inp.cands, inp.perm))]
    /\ pc' = "done"
    /\ UNCHANGED <<mode, inp, inputVars, use_fixed, detected, loopVars, retryVars,
                   extractVars, ocr_used, sideVars, retVars>>

InitOrder ==
    /\ mode = "order"
    /\ pc = "o_apply"
    /\ fn = "none" /\ out = <<>>
    /\ inp \in OrderInputs
    /\ image = Unreadable /\ regions = <<>> /\ methods = DEFAULT_FALLBACK_METHODS
    /\ LoopIdle /\ ScratchIdle /\ AdaptiveIdle
    /\ RunIdle /\ cv_image = Unreadable

(***************************************************************************)
(* The recognizers, each entered through its process_image                 *)
(***************************************************************************)
Init == InitH \/ InitT \/ InitI \/ InitRM \/ InitOrder

Next ==
    \/ H_Unreadable \/ H_Load \/ H_Type \/ H_Return \/ H_EndType
    \/ H_RegionMalformed \/ H_RegionSkipped \/ H_ConvertRaises \/ H_Extract
    \/ H_PrimaryOcr \/ H_CascadeDone \/ H_MethodRaises \/ H_Method \/ H_FallbackOcr
    \/ T_Unreadable \/ T_Load \/ T_Type \/ T_Return \/ T_EndType
    \/ T_RegionMalformed \/ T_RegionSkipped \/ T_StageRaises \/ T_ProcessRegion
    \/ I_Unreadable \/ I_Fixed \/ I_Adaptive \/ I_Combine
    \/ RM_Unreadable \/ RM_Submit \/ RM_Collect \/ RM_Return
    \/ (\E k \in 1..Len(futures) : RM_Task(k))
    \/ O_Arbitrate

Spec == Init /\ [][Next]_vars

(***************************************************************************)
(* Properties of the retry wrapper and of one region's extraction          *)
(* (SpecRegion)                                                            *)
(***************************************************************************)
WrapperActed == w_out.act \in {"return", "raise", "again"}

\* C1: when the wrapped OCR call returns a text after k earlier failures,
\* k < max_attempts = 3, the retry wrapper returns that very text, after
\* exactly k + 1 invocations, and raises nothing; it gives up (re-raises) only
\* when the call has failed max_attempts times.
C1_RetryReturnsText ==
    WrapperActed =>
        /\ w_out.func.kind = "text" =>
              /\ w_out.act = "return"
              /\ w_out.text = w_out.func.text
              /\ w_out.fails < 3
              /\ w_out.calls = w_out.fails + 1
        /\ w_out.func.kind = "raise" =>
              /\ w_out.calls = w_out.fails
              /\ w_out.act = (IF w_out.fails < 3 THEN "again" ELSE "raise")

\* two failures, then the text of the third invocation is returned
C1_Witness ==
    /\ w_out.act = "return"
    /\ w_out.fails = 2
    /\ w_out.calls = 3
    /\ w_out.text = LongCode

\* The number of steps one region's extraction can still take
ExtractionRank ==
    CASE pc = "h_region"  -> Len(methods) * (MAX_ATTEMPTS + 1) + MAX_ATTEMPTS + 3
      [] pc = "h_primary" -> Len(methods) * (MAX_ATTEMPTS + 1) + (MAX_ATTEMPTS - attempt) + 1
      [] pc = "h_method"  -> (Len(methods) + 1 - midx) * (MAX_ATTEMPTS + 1) + 1
      [] pc = "h_ocr"     -> (Len(methods) - midx) * (MAX_ATTEMPTS + 1)
                                + (MAX_ATTEMPTS - attempt) + 1
      [] OTHER            -> 0

InvocationBound == 1 + 2 + Len(methods) * (1 + 2)

\* C4: one region's extraction never invokes the OCR engine more than
\* 1 + retries + len(fallback_methods) x (1 + retries) times, retries = 2 (15
\* with the four default methods), and it terminates: every step it takes
\* lowers a rank that is a natural number, and a step is possible until the
\* region's result is returned.
C4_BoundedExtraction ==
    /\ [](ocr_calls <= InvocationBound)
    /\ [](ExtractionRank >= 0 /\ (pc = "done" \/ ENABLED NextRegion))
    /\ [][ExtractionRank' < ExtractionRank]_vars

\* every one of the fifteen invocations is made: all attempts of all methods fail
C4_Witness ==
    /\ pc = "done"
    /\ Len(methods) = 4
    /\ ocr_calls = 15
    /\ cands[1].res = NoneResult

CascadeRan ==
    /\ pc = "done"
    /\ cands # <<>>
    /\ ~cands[1].exc
    /\ stages # <<>>
    /\ cands[1].res.method # "default"

MethodsRun == Len(SelectSeq(stages, LAMBDA s : s = "preprocess"))

\* C5 (as stated): once a fallback method has produced a candidate above the
\* acceptance threshold, no later fallback method is run.
C5_StopsEarly ==
    pc = "h_ocr" => \A k \in 1..Len(fresults) : fresults[k].confidence <= ACCEPT_THRESHOLD

\* C5 (amended): the cascade runs every configured fallback method, whatever
\* the earlier methods produced, and returns the candidate with the highest
\* confidence of all of them (the empty candidate if there is none).
C5_RunsEveryMethod ==
    CascadeRan =>
        /\ MethodsRun = Len(methods)
        /\ \A k \in 1..Len(fresults) : fresults[k].confidence <= cands[1].res.confidence
        /\ IF fresults = <<>> THEN cands[1].res = NoneResult
           ELSE \E k \in 1..Len(fresults) : fresults[k] = cands[1].res

\* the first method's candidate is above the threshold, and the three others ran
C5_Witness ==
    /\ CascadeRan
    /\ Len(methods) = 4
    /\ MethodsRun = 4
    /\ Len(fresults) >= 2
    /\ fresults[1].method = "adaptive_threshold"
    /\ fresults[1].confidence > ACCEPT_THRESHOLD

(***************************************************************************)
(* Properties of the confidence functions (SpecPure)                       *)
(***************************************************************************)
Applied(f) == mode = "pure" /\ pc = "done" /\ fn = f

\* C10: every confidence lies in [0,1] (0..100 hundredths): calculate_confidence
\* gives 0.0 for the empty text with every field type and otherwise 0.5 plus the
\* field's bonuses, capped at 1.0; the fallback path's and the classifier's
\* confidences stay in [0,1] as well.
C10_ConfidenceInRange ==
    /\ (mode = "pure" /\ pc = "done") => (0 <= out.num /\ out.num <= 100 * out.den)
    /\ Applied("calculate_confidence") =>
          out.num = (IF inp.text = <<>> THEN 0
                     ELSE IF 50 + bonus(inp.text, inp.type) > 100 THEN 100
                     ELSE 50 + bonus(inp.text, inp.type))

\* amount's 0.5 + 0.2 + 0.2 + 0.1 + 0.2 + 0.2 comes out as exactly 1.0
C10_Witness ==
    /\ Applied("calculate_confidence")
    /\ inp.type = "amount"
    /\ inp.text = <<RUPEE, "5", "%", "o", "f", "f">>
    /\ bonus(inp.text, inp.type) = 90
    /\ out.num = 100

(***************************************************************************)
(* Properties of the recognizers (Spec)                                    *)
(***************************************************************************)
HandlerLoop == pc \in {"h_type", "h_region", "h_primary", "h_method", "h_ocr"}

TestableLoop == pc \in {"t_type", "t_region"}

\* left >= right or top >= bottom, or no pixel of the image in the region
Degenerate(region) ==
    \/ region.left >= region.right
    \/ region.top >= region.bottom
    \/ roi_size(image, region) = 0

\* C2: a region with left >= right or top >= bottom, or with an empty pixel
\* area, makes process_region return text "" and confidence 0.0 (method "none"
\* in the error-recovery handler) without any preprocessing, OCR,
\* postprocessing or confidence calculation, without any retry and without any
\* exception.
C2_DegenerateRegionSkipped ==
    (HandlerLoop \/ TestableLoop) =>
        \A k \in 1..Len(cands) :
            (cands[k].region.ok /\ Degenerate(cands[k].region)) =>
                /\ cands[k].res = (IF HandlerLoop THEN NoneResult ELSE EmptyResult)
                /\ ~cands[k].touched
                /\ ~cands[k].exc
                /\ (k = Len(cands) /\ pc \in {"h_region", "t_region"}) =>
                        (ocr_calls = 0 /\ stages = <<>> /\ w_out = IdleOut)

\* the handler has skipped a reversed region (whose numpy slice is not empty)
\* and a region outside the image
C2_Witness ==
    /\ pc = "h_region"
    /\ Len(cands) = 2
    /\ cands[1].region = ReversedRegion /\ roi_size(image, ReversedRegion) > 0
    /\ cands[2].region = OutsideRegion /\ ~invalid_region(OutsideRegion)
    /\ cands[1].res = NoneResult /\ cands[2].res = NoneResult

\* the field of the type whose regions have just been processed, if reported
JustReported ==
    IF pc \in {"h_type", "t_type"} /\ ti > 1 /\ results # <<>>
            /\ results[Len(results)].type = regions[ti - 1].type
      THEN {results[Len(results)]}
      ELSE {}

Sources(x) == {e \in {h_ret.entries[k] : k \in 1..Len(h_ret.entries)} : e.type = x}
                  \cup {e \in {t_ret.entries[k] : k \in 1..Len(t_ret.entries)} : e.type = x}

Combined == mode = "improved" /\ pc = "done" /\ "error" \notin i_ret.keys

\* C3: when process_image reports a field, the confidence it reports is the
\* maximum confidence over the candidates of the field type's regions in that
\* run, and the text is that of a candidate with that confidence; and what the
\* improved recognizer reports for a field is the higher-confidence one of the
\* error-recovery result and the testable recognizer's result.
C3_ReportsMaximum ==
    /\ \A e \in JustReported :
          /\ \A k \in 1..Len(cands) : cands[k].res.confidence <= e.confidence
          /\ \E k \in 1..Len(cands) : /\ cands[k].res.confidence = e.confidence
                                      /\ cands[k].res.text = e.text
    /\ Combined =>
          \A k \in 1..Len(i_ret.entries) :
              /\ \A src \in Sources(i_ret.entries[k].type) :
                      src.confidence <= i_ret.entries[k].confidence
              /\ \E src \in Sources(i_ret.entries[k].type) :
                      /\ src.confidence = i_ret.entries[k].confidence
                      /\ src.text = i_ret.entries[k].text

\* the field is reported from its first region although a later region gave a
\* candidate, of lower confidence
C3_Witness ==
    /\ pc = "h_type"
    /\ JustReported # {}
    /\ Len(cands) = 2
    /\ cands[1].res.confidence = 80
    /\ cands[2].res.confidence > 0 /\ cands[2].res.confidence < 80
    /\ results[Len(results)].confidence = 80
    /\ results[Len(results)].text = cands[1].res.text

Identity(n) == [i \in 1..n |-> i]

TopConfidence(cs) == SetMax({cs[k].confidence : k \in 1..Len(cs)})

TopLength(cs) == SetMax({Len(cs[k].text) : k \in 1..Len(cs)})

\* no two candidates tie for the first place (by confidence, or by the length
\* of the text in the resource manager)
NoTie(recognizer, cs) ==
    IF recognizer = "rm"
      THEN Cardinality({k \in 1..Len(cs) : Len(cs[k].text) = TopLength(cs)}) = 1
      ELSE Cardinality({k \in 1..Len(cs) : cs[k].confidence = TopConfidence(cs)}) = 1

Reordered == mode = "order" /\ pc = "done"

\* C6 (as stated): the text and the confidence reported for a field type are
\* the same for every ordering of its regions, ties included.
C6_SameForEveryOrder == Reordered => out.first = out.second

\* the texts the tasks of a type returned, the first-submitted and longest first
FirstLongest(x) ==
    {k \in 1..Len(futures) :
        /\ futures[k].type = x
        /\ futures[k].text # <<>>
        /\ \A j \in 1..Len(futures) :
              futures[j].type = x =>
                  \/ Len(futures[j].text) < Len(futures[k].text)
                  \/ Len(futures[j].text) = Len(futures[k].text) /\ j >= k}

PoolReturned == mode = "rm" /\ pc = "done" /\ ~raised

\* C6 (amended): for every ordering of the regions of a field type the field
\* is reported or not alike and with the same confidence (the same length of
\* text in the resource manager), and with the same text unless two candidates
\* tie for the first place, in which case the one that comes first in the list
\* is reported; and whatever the order in which the worker tasks complete, the
\* resource manager reports for each type the text of the first-submitted of
\* its longest texts.
C6_OrderMattersOnlyOnTies ==
    /\ Reordered =>
          /\ Len(out.first) = Len(out.second)
          /\ out.first # <<>> =>
                IF inp.recognizer = "rm"
                  THEN Len(out.first[1].text) = Len(out.second[1].text)
                  ELSE out.first[1].confidence = out.second[1].confidence
          /\ NoTie(inp.recognizer, inp.cands) => out.first = out.second
    /\ PoolReturned =>
          /\ \A k \in 1..Len(rm_ret.entries) :
                \E f \in FirstLongest(rm_ret.entries[k].type) :
                    futures[f].text = rm_ret.entries[k].text
          /\ \A f \in 1..Len(futures) :
                futures[f].text # <<>> => futures[f].type \in rm_ret.keys

\* the second-submitted task completed first and returned a text as long as
\* the first-submitted task's, whose text is reported
C6_Witness ==
    /\ PoolReturned
    /\ Len(futures) = 2
    /\ futures[1].type = futures[2].type
    /\ futures[2].rank = 1 /\ futures[1].rank = 2
    /\ futures[1].text = <<"5", "%">> /\ futures[2].text = <<"7", "%">>
    /\ rm_ret.entries[1].text = <<"5", "%">>

\* the OCR stage raised while the region that was just processed was read
OcrRaisedForLast ==
    /\ pc = "h_region"
    /\ cands # <<>>
    /\ w_out.act = "return"
    /\ w_out.fails > 0

\* C7 (as stated): if any stage raises while a region is processed, the region
\* yields the empty candidate.
C7_AnyRaiseGivesEmpty ==
    OcrRaisedForLast =>
        /\ cands[Len(cands)].res.text = <<>>
        /\ cands[Len(cands)].res.confidence = 0

\* C7 (amended): an exception that process_region has to catch (in the
\* error-recovery handler: one that its retries and its fallback cascade did
\* not absorb) makes the region yield the empty candidate, text "" and
\* confidence 0.0; no exception leaves process_image of a readable image; and
\* every other region is still processed, so that each region of a type has
\* its candidate when the type's field is stored.
C7_CaughtRaiseGivesEmpty ==
    /\ (HandlerLoop \/ TestableLoop) =>
          /\ \A k \in 1..Len(cands) :
                cands[k].exc => (cands[k].res.text = <<>> /\ cands[k].res.confidence = 0)
          /\ (pc \in {"h_type", "t_type"} /\ ti > 1) =>
                /\ Len(cands) = Len(regions[ti - 1].list)
                /\ \A k \in 1..Len(cands) : cands[k].region = regions[ti - 1].list[k]
    /\ mode = "rm" =>
          /\ \A f \in 1..Len(futures) : futures[f].exc => futures[f].text = <<>>
          /\ PoolReturned => \A f \in 1..Len(futures) : futures[f].state = "done"
    /\ image.readable => ~raised

\* a stage raised for the first region of the type, and the field is reported
\* from the second
C7_Witness ==
    /\ pc = "t_type"
    /\ JustReported # {}
    /\ Len(cands) = 2
    /\ cands[1].exc /\ cands[1].touched /\ cands[1].res = EmptyResult
    /\ ~cands[2].exc
    /\ results[Len(results)].text = cands[2].res.text

\* process_image has returned (or raised)
Returned(r) == r # NotReturned

\* C8: for an image that cannot be loaded process_image raises nothing and
\* returns a result with the results map and the confidence map present and
\* empty and with a top-level error marker, and no stage is run for any region.
C8_UnreadableReported ==
    (~image.readable /\ mode \in {"handler", "testable", "improved"}) =>
        /\ ~raised
        /\ ~ocr_used /\ stages = <<>>
        /\ \A r \in {h_ret, t_ret, i_ret} :
              Returned(r) =>
                  /\ {"results", "confidence", "error"} \subseteq r.keys
                  /\ r.entries = <<>>

NoRegions == regions = <<>> /\ detected = <<>>

\* C9: with no region supplied or detected for a readable image, process_image
\* raises nothing, never invokes the OCR engine, runs no stage, and returns a
\* result whose results map and confidence map are present and empty.
C9_NoRegionsEmptyResult ==
    (image.readable /\ NoRegions /\ mode \in {"handler", "testable", "improved"}) =>
        /\ ~raised
        /\ ~ocr_used /\ stages = <<>> /\ cands = <<>>
        /\ pc = "done" =>
              LET r == CASE mode = "handler" -> h_ret
                         [] mode = "testable" -> t_ret
                         [] OTHER -> i_ret
              IN  /\ {"results", "confidence"} \subseteq r.keys
                  /\ "error" \notin r.keys
                  /\ r.entries = <<>>

\* the adaptive recognizer detected no text region, and the improved recognizer
\* returned its empty maps
C9_Witness ==
    /\ mode = "improved" /\ ~use_fixed
    /\ image.readable /\ NoRegions
    /\ pc = "done"
    /\ i_ret = [keys |-> {"results", "confidence", "processing_time"}, entries |-> <<>>]
    /\ cleanups = 1

(***************************************************************************)
(* The postprocessor and the confidence calculator, applied to bounded     *)
(* texts the way process_region applies them: postprocess, then            *)
(* calculate_confidence on the postprocessed text                          *)
(***************************************************************************)
PostAlphabet == {"a", "R", "s", "5", "%", " ", "/", ".", RUPEE, ESZETT}

UseCodeSave20 ==
    <<"U","s","e"," ","c","o","d","e",":"," ","S","A","V","E","2","0">>

FiftyPercentOffOnAllOrders ==
    <<"5","0","%"," ","o","f","f"," ","o","n"," ","a","l","l"," ",
      "o","r","d","e","r","s">>

PostSamples ==
    {UseCodeSave20,
     FiftyPercentOffOnAllOrders,
     <<"S","A","V","E","2","0">>,
     <<"5","0","%","o","f","f">>,
     <<RUPEE,"5","0","0">>,
     <<"v","a","l","i","d"," ","t","i","l","l"," ","3","1","/","1","2","/","2","0","2","3">>,
     <<"\t","M","Y","N","T","R","A"," "," ","s","t","o","r","e","\n">>}

PostTexts == SeqsUpTo(PostAlphabet, MaxTextLen) \cup PostSamples

PostInputs == {[text |-> t, type |-> ty] : t \in PostTexts, ty \in FieldTypes}

PostIdle ==
    /\ image = Unreadable /\ regions = <<>> /\ methods = DEFAULT_FALLBACK_METHODS
    /\ LoopIdle /\ ScratchIdle /\ AdaptiveIdle /\ RunIdle /\ cv_image = Unreadable

\* processed_text = self.text_postprocessor.postprocess(text, region_type)
Post_Postprocess ==
    /\ pc = "post_apply"
    /\ fn' = "postprocess"
    /\ out' = [text |-> postprocess(inp.text, inp.type), again |-> <<>>, confidence |-> 0]
    /\ pc' = "post_done"
    /\ UNCHANGED <<mode, inp, inputVars, use_fixed, detected, loopVars, retryVars,
                   extractVars, ocr_used, sideVars, retVars>>

\* confidence = self.confidence_calculator.calculate_confidence(processed_text, region_type)
Post_Confidence ==
    /\ pc = "post_done"
    /\ fn' = "calculate_confidence"
    /\ out' = [out EXCEPT !.confidence = calculate_confidence(out.text, inp.type)]
    /\ pc' = "scored"
    /\ UNCHANGED <<mode, inp, inputVars, use_fixed, detected, loopVars, retryVars,
                   extractVars, ocr_used, sideVars, retVars>>

\* the postprocessor is run again on the text it returned
Post_Again ==
    /\ pc = "post_done"
    /\ fn' = "postprocess"
    /\ out' = [out EXCEPT !.again = postprocess(out.text, inp.type)]
    /\ pc' = "reapplied"
    /\ UNCHANGED <<mode, inp, inputVars, use_fixed, detected, loopVars, retryVars,
                   extractVars, ocr_used, sideVars, retVars>>

NextPost == Post_Postprocess \/ Post_Confidence \/ Post_Again

InitPost ==
    /\ mode = "post"
    /\ pc = "post_apply"
    /\ fn = "none" /\ inp \in PostInputs /\ out = <<>>
    /\ PostIdle

SpecPost == InitPost /\ [][NextPost]_vars

(***************************************************************************)
(* Properties of the postprocessor (SpecPost)                              *)
(***************************************************************************)
Postprocessed == mode = "post" /\ pc \in {"post_done", "scored", "reapplied"}

\* C11: postprocessing is idempotent: for every field type and every text,
\* postprocessing the postprocessed text again returns it unchanged, and the
\* empty text gives the empty text.
C11_Idempotent ==
    /\ (mode = "post" /\ pc = "reapplied") => out.again = out.text
    /\ (Postprocessed /\ inp.text = <<>>) => out.text = <<>>

\* C12: for field type code the text "Use code: SAVE20" is normalized to
\* "SAVE20", and the confidence of the normalized text is above 0.7.
C12_LabelledCodeNormalized ==
    (mode = "post" /\ pc = "scored" /\ inp.type = "code" /\ inp.text = UseCodeSave20)
        => /\ out.text = <<"S","A","V","E","2","0">>
           /\ out.confidence > 70

\* the text without its whitespace characters
NoSpace(s) == Pick(s, {i \in 1..Len(s) : ~isspace(s[i])})

\* the indices of the '%' characters that directly follow a digit
DigitPercent(s) == {i \in 2..Len(s) : s[i] = "%" /\ isdigit(s[i-1])}

\* whitespace is normalized already and no currency symbol touches a digit
PlainAmount(s) ==
    /\ \A i \in 1..Len(s) : isspace(s[i]) =>
          s[i] = " " /\ i > 1 /\ i < Len(s) /\ ~isspace(s[i+1])
    /\ \A i \in 2..Len(s) : isdigit(s[i]) => (i - 1) \notin CurrencyEnds(s)

C19_PercentWordSeparated ==
    (Postprocessed /\ inp.type = "amount") =>
        /\ inp.text = <<"5","0","%","o","f","f">>
              => out.text = <<"5","0","%"," ","o","f","f">>
        /\ inp.text = <<RUPEE,"5","0","0">>
              => out.text = <<RUPEE," ","5","0","0">>

(***************************************************************************)
(* Properties of CouponRecognizer.process_region's pipeline (Spec)         *)
(***************************************************************************)
\* left < right, top < bottom, and the crop has pixels
ValidHere(r) ==
    /\ r.ok
    /\ r.left < r.right /\ r.top < r.bottom
    /\ roi_size(image, r) # 0

\* the number of valid regions of the regions argument
ValidCount ==
    Cardinality({p \in (1..Len(regions)) \X (1..MaxRegions) :
                    /\ p[2] <= Len(regions[p[1]].list)
                    /\ ValidHere(regions[p[1]].list[p[2]])})

WithinLimit(img) ==
    img.width <= IMAGE_SIZE_LIMIT.width /\ img.height <= IMAGE_SIZE_LIMIT.height

\* C17: in every recognition run an image that exceeds image_size_limit is
\* downscaled, with one scale factor for both dimensions, to fit the limit
\* before any region is extracted from it, and an image within the limit is
\* passed on unchanged.
C17_DownscaledBeforeExtraction ==
    ocr_used =>
        /\ WithinLimit(cv_image)
        /\ cv_image.width * image.height <= (cv_image.height + 1) * image.width
        /\ cv_image.height * image.width <= (cv_image.width + 1) * image.height
        /\ WithinLimit(image) => cv_image = image

(***************************************************************************)
(* Region geometry: detect_text_regions and analyze_layout of the          *)
(* AdaptivePatternRecognizer and the clamping of ModelManager.test_image,   *)
(* applied to bounded inputs                                               *)
(***************************************************************************)
MIN_TEXT_HEIGHT == 20

MIN_TEXT_WIDTH == 50

TEXT_PADDING == 10

Max2(a, b) == IF a >= b THEN a ELSE b

\* image.shape of the images given to the detector and to test_image
GeoImages == {[width |-> 64, height |-> 48], [width |-> 120, height |-> 30]}

\* cv2.boundingRect of a contour of the image: a rectangle of at least one
\* pixel inside the image
BoundingRects(img) ==
    {r \in [x : {0, 5, 10, 14}, y : {0, 5, 10, 14},
            w : {1, 49, 50, 54, 64, 110}, h : {1, 19, 20, 25, 48}] :
        r.x + r.w <= img.width /\ r.y + r.h <= img.height}

\* region dicts of a pattern file: any integers
PatternCoords == {0 - 3, 0, 1, 47, 48, 63, 64, 70}

PatternRegions ==
    [left : PatternCoords, top : PatternCoords, right : PatternCoords,
     bottom : PatternCoords]

\* detect_text_regions: the body of `for contour in contours`, the regions it
\* appends to text_regions for one contour
detect_text_region(img, r) ==
    IF r.h >= MIN_TEXT_HEIGHT /\ r.w >= MIN_TEXT_WIDTH
      THEN LET x == Max2(0, r.x - TEXT_PADDING)
               y == Max2(0, r.y - TEXT_PADDING)
           IN  <<[x |-> x, y |-> y,
                  w |-> Min2(img.width - x, r.w + 2 * TEXT_PADDING),
                  h |-> Min2(img.height - y, r.h + 2 * TEXT_PADDING)]>>
      ELSE <<>>

\* analyze_layout: the entry of identified_regions for best_region['region']
layout_region(r) ==
    [left |-> r.x, top |-> r.y, right |-> r.x + r.w, bottom |-> r.y + r.h]

clamp_to_image_only(img, r) ==
    [left   |-> Max2(0, Min2(r.left, img.width - 1)),
     top    |-> Max2(0, Min2(r.top, img.height - 1)),
     right  |-> Min2(r.right, img.width),
     bottom |-> Min2(r.bottom, img.height)]

\* test_image: "Ensure coordinates are within image bounds"
clamp_region(img, r) ==
    LET left == Max2(0, Min2(r.left, img.width - 1))
        top  == Max2(0, Min2(r.top, img.height - 1))
    IN  [left   |-> left,
         top    |-> top,
         right  |-> Max2(left + 1, Min2(r.right, img.width)),
         bottom |-> Max2(top + 1, Min2(r.bottom, img.height))]

GeoInputs ==
    UNION {{[kind |-> "contour", image |-> img, rect |-> r] : r \in BoundingRects(img)}
              : img \in GeoImages}
    \cup {[kind |-> "pattern", image |-> img, rect |-> r] :
            img \in GeoImages, r \in PatternRegions}

GeoUnchanged ==
    UNCHANGED <<mode, inp, inputVars, use_fixed, detected, loopVars, retryVars,
                extractVars, ocr_used, sideVars, retVars>>

G_Detect ==
    /\ pc = "g_apply"
    /\ inp.kind = "contour"
    /\ fn' = "detect_text_regions"
    /\ out' = detect_text_region(inp.image, inp.rect)
    /\ pc' = "g_detected"
    /\ GeoUnchanged

G_Layout ==
    /\ pc = "g_detected"
    /\ out # <<>>
    /\ fn' = "analyze_layout"
    /\ out' = <<layout_region(out[1])>>
    /\ pc' = "done"
    /\ GeoUnchanged

G_Clamp ==
    /\ pc = "g_apply"
    /\ inp.kind = "pattern"
    /\ fn' = "test_image"
    /\ out' = <<clamp_region(inp.image, inp.rect)>>
    /\ pc' = "done"
    /\ GeoUnchanged

NextGeo == G_Detect \/ G_Layout \/ G_Clamp

InitGeo ==
    /\ mode = "geometry"
    /\ pc = "g_apply"
    /\ fn = "none" /\ inp \in GeoInputs /\ out = <<>>
    /\ PostIdle

SpecGeo == InitGeo /\ [][NextGeo]_vars

(***************************************************************************)
(* Properties of the region geometry (SpecGeo)                             *)
(***************************************************************************)
\* left < right, top < bottom, inside the image
WellFormedIn(img, r) ==
    /\ r.left < r.right /\ r.top < r.bottom
    /\ 0 <= r.left /\ r.right <= img.width
    /\ 0 <= r.top /\ r.bottom <= img.height

\* C15: every region detection produces (after the padding and clamping of
\* detect_text_regions and after analyze_layout's conversion to
\* left/top/right/bottom), and every region after the clamping step before
\* extraction, has left < right and top < bottom and lies within the image.
C15_RegionsWellFormed ==
    /\ (mode = "geometry" /\ fn = "detect_text_regions" /\ out # <<>>) =>
          WellFormedIn(inp.image, layout_region(out[1]))
    /\ (mode = "geometry" /\ fn \in {"analyze_layout", "test_image"}) =>
          WellFormedIn(inp.image, out[1])

\* a reversed pattern region right of the image, clamped to its last column
C15_Witness ==
    /\ mode = "geometry" /\ fn = "test_image"
    /\ inp.image.width = 64
    /\ inp.rect.left = 70 /\ inp.rect.right = 0 - 3
    /\ out[1].left = 63 /\ out[1].right = 64

(***************************************************************************)
(* Properties of the fallback path's rank (Spec)                           *)
(***************************************************************************)
FallbackMethods == {methods[k] : k \in 1..Len(methods)}

\* C16: a candidate of a fallback preprocessing method never outranks a healthy
\* primary-path candidate: in the arbitration of process_image for a field
\* type, a result tagged with a fallback method is never selected over a result
\* with method "default" from another region of the type, the fallback
\* confidence never being strictly greater than the primary path's.
C16_FallbackNeverOutranksPrimary ==
    (mode \in {"handler", "improved"} /\ pc = "h_region") =>
        /\ best.method \in FallbackMethods =>
              \A k \in 1..Len(cands) : cands[k].res.method # "default"
        /\ \A k \in 1..Len(cands) :
              cands[k].res.method \in FallbackMethods =>
                  cands[k].res.confidence <= DEFAULT_CONFIDENCE

(***************************************************************************)
(* Configuration loading: the __init__ of ErrorRecoveryHandler,            *)
(* ResourceManager and AdaptivePatternRecognizer.  A dict is a set of      *)
(* <<key, value>> pairs with distinct keys; a value is a scalar (a JSON    *)
(* number, string, list or null) or a nested dict of scalars.              *)
(***************************************************************************)
Scalar(x) == [dict |-> FALSE, v |-> x, d |-> {}]

DictVal(pairs) == [dict |-> TRUE, v |-> "", d |-> pairs]

Keys(pairs) == {p[1] : p \in pairs}

Get(pairs, k) == (CHOOSE p \in pairs : p[1] = k)[2]

\* dict.update(other)
update(d, other) == {p \in d : p[1] \notin Keys(other)} \cup other

Components == {"ErrorRecoveryHandler", "ResourceManager", "AdaptivePatternRecognizer"}

\* "Default configuration" of each component
DefaultConfig(component) ==
    CASE component = "ErrorRecoveryHandler" ->
            {<<"max_retry_attempts", Scalar("3")>>,
             <<"retry_delay", Scalar("1")>>,
             <<"retry_backoff", Scalar("2")>>,
             <<"fallback_methods", Scalar("four methods")>>,
             <<"ocr_configs", DictVal({<<"default", "psm 6">>, <<"code", "psm 7 code">>,
                                       <<"amount", "psm 7 amount">>,
                                       <<"expiry", "psm 7 expiry">>})>>}
      [] component = "ResourceManager" ->
            {<<"max_workers", Scalar("4")>>,
             <<"memory_limit_mb", Scalar("1024")>>,
             <<"image_size_limit", Scalar("(1920, 1080)")>>,
             <<"temp_dir", Scalar("None")>>,
             <<"cleanup_interval", Scalar("10")>>}
      [] OTHER ->
            {<<"min_text_height", Scalar("20")>>,
             <<"min_text_width", Scalar("50")>>,
             <<"text_padding", Scalar("10")>>,
             <<"clustering_eps", Scalar("50")>>,
             <<"clustering_min_samples", Scalar("2")>>,
             <<"element_patterns", DictVal({<<"store", "store patterns">>,
                                            <<"code", "code patterns">>,
                                            <<"amount", "amount patterns">>,
                                            <<"expiry", "expiry patterns">>,
                                            <<"description", "description patterns">>})>>,
             <<"ocr_configs", DictVal({<<"store", "psm 7 store">>, <<"code", "psm 7 code">>,
                                       <<"amount", "psm 7 amount">>,
                                       <<"expiry", "psm 7 expiry">>,
                                       <<"description", "psm 6 description">>})>>}

\* `if isinstance(value, dict) and isinstance(self.config[key], dict)`: the
\* components that have this branch
Merges(component) == component # "ResourceManager"

\* The keys a configuration file of the model may hold: one scalar default,
\* the component's last two defaults, and a key that is no default
FileKeys(component) ==
    CASE component = "ErrorRecoveryHandler" ->
            {"retry_delay", "fallback_methods", "ocr_configs", "verbose"}
      [] component = "ResourceManager" ->
            {"max_workers", "image_size_limit", "temp_dir", "verbose"}
      [] OTHER ->
            {"text_padding", "element_patterns", "ocr_configs", "verbose"}

\* The values a key of the file may hold; temp_dir holds a path, "" or null
FileValues(key) ==
    IF key = "temp_dir"
      THEN {Scalar("/tmp/coupons"), Scalar(""), Scalar("None")}
      ELSE {Scalar("from file"),
            DictVal({}),
            DictVal({<<"code", "from file">>}),
            DictVal({<<"logo", "from file">>, <<"code", "from file">>})}

\* json.load of a file that holds a JSON object
Absent == [dict |-> FALSE, v |-> "absent", d |-> {}]

ConfigFiles(component) ==
    {{<<k, c[k]>> : k \in {x \in FileKeys(component) : c[x] # Absent}} :
        c \in {g \in [FileKeys(component) ->
                         {Absent} \cup UNION {FileValues(k) : k \in FileKeys(component)}] :
                    \A k \in FileKeys(component) : g[k] \in {Absent} \cup FileValues(k)}}

load_config_replacing(component, file) ==
    {<<p[1], IF p[1] \in Keys(file) THEN Get(file, p[1]) ELSE p[2]>> :
        p \in DefaultConfig(component)}

\* "Update default config with loaded values"
load_config(component, file) ==
    {<<p[1],
       IF p[1] \notin Keys(file) THEN p[2]
       ELSE IF Merges(component) /\ Get(file, p[1]).dict /\ p[2].dict
         THEN DictVal(update(p[2].d, Get(file, p[1]).d))
         ELSE Get(file, p[1])>> :
        p \in DefaultConfig(component)}

\* ResourceManager: "Create temporary directory if not specified"
with_temp_dir(component, config) ==
    IF component = "ResourceManager" /\ Get(config, "temp_dir").v \in {"", "None"}
      THEN update(config, {<<"temp_dir", Scalar("mkdtemp()")>>})
      ELSE config

ConfigInputs ==
    UNION {{[component |-> c, parsed |-> TRUE, file |-> f] : f \in ConfigFiles(c)}
             : c \in Components}
    \cup {[component |-> c, parsed |-> FALSE, file |-> {}] : c \in Components}

CfgUnchanged ==
    UNCHANGED <<mode, inp, inputVars, use_fixed, detected, loopVars, retryVars,
                extractVars, ocr_used, sideVars, retVars>>

\* the file exists and holds a JSON object
Cfg_Load ==
    /\ pc = "cfg_init"
    /\ inp.parsed
    /\ fn' = "load"
    /\ out' = with_temp_dir(inp.component, load_config(inp.component, inp.file))
    /\ pc' = "done"
    /\ CfgUnchanged

\* no file, or open or json.load raises: "Error loading configuration"
Cfg_Defaults ==
    /\ pc = "cfg_init"
    /\ ~inp.parsed
    /\ fn' = "defaults"
    /\ out' = with_temp_dir(inp.component, DefaultConfig(inp.component))
    /\ pc' = "done"
    /\ CfgUnchanged

NextCfg == Cfg_Load \/ Cfg_Defaults

InitCfg ==
    /\ mode = "config"
    /\ pc = "cfg_init"
    /\ fn = "none" /\ inp \in ConfigInputs /\ out = {}
    /\ PostIdle

SpecCfg == InitCfg /\ [][NextCfg]_vars

(***************************************************************************)
(* Properties of configuration loading (SpecCfg)                           *)
(***************************************************************************)
Constructed == mode = "config" /\ pc = "done"

\* a temp_dir that is unset when the file has been read
TempDirUnset(k) ==
    /\ inp.component = "ResourceManager" /\ k = "temp_dir"
    /\ (k \in Keys(inp.file) => Get(inp.file, k).v \in {"", "None"})

\* C18 as stated: loading a configuration file never adds a key: the
\* configuration has exactly the default keys, a key of the file that is a
\* default key holds the file's value, a key absent from the file holds its
\* default value, and the file's other keys are ignored.
C18_FileValuesReplaceDefaults ==
    Constructed =>
        /\ Keys(out) = Keys(DefaultConfig(inp.component))
        /\ \A k \in Keys(out) :
              Get(out, k) = IF k \in Keys(inp.file) THEN Get(inp.file, k)
                            ELSE Get(DefaultConfig(inp.component), k)

\* C18 as the code has it: the configuration has exactly the default keys and
\* the file's other keys are ignored; a key absent from the file holds its
\* default value and a key of the file holds the file's value, except that a
\* dict given for a dict default is merged into it by the handler and the
\* pattern recognizer (the file's entries win, entries the defaults lack are
\* added, the default's other entries stay), and that the resource manager
\* replaces an unset temp_dir by a new temporary directory.
C18_DefaultKeysMergedDicts ==
    Constructed =>
        /\ Keys(out) = Keys(DefaultConfig(inp.component))
        /\ \A k \in Keys(out) :
              LET dflt == Get(DefaultConfig(inp.component), k)
                  new  == Get(out, k)
              IN  IF TempDirUnset(k) THEN new = Scalar("mkdtemp()")
                  ELSE IF k \notin Keys(inp.file) THEN new = dflt
                  ELSE IF Merges(inp.component) /\ dflt.dict /\ Get(inp.file, k).dict
                    THEN /\ new.dict
                         /\ Keys(new.d) = Keys(dflt.d) \cup Keys(Get(inp.file, k).d)
                         /\ \A n \in Keys(new.d) :
                               Get(new.d, n) = IF n \in Keys(Get(inp.file, k).d)
                                               THEN Get(Get(inp.file, k).d, n)
                                               ELSE Get(dflt.d, n)
                    ELSE new = Get(inp.file, k)

\* the file's ocr_configs has an entry for code and one for logo: the handler's
\* ocr_configs keeps its other three entries and gains logo
C18_Witness ==
    /\ Constructed
    /\ inp.component = "ErrorRecoveryHandler"
    /\ Keys(inp.file) = {"ocr_configs", "verbose"}
    /\ Keys(Get(inp.file, "ocr_configs").d) = {"logo", "code"}
    /\ Keys(Get(out, "ocr_configs").d) = {"default", "code", "amount", "expiry", "logo"}
    /\ Get(Get(out, "ocr_configs").d, "code") = "from file"
    /\ "verbose" \notin Keys(out)

(***************************************************************************)
(* Properties of the initial attempt (SpecRegion)                          *)
(***************************************************************************)
\* the cascade has just been entered: no fallback method has been tried yet
CascadeJustEntered == mode = "region" /\ pc = "h_method" /\ midx = 1 /\ MethodsRun = 0

\* C20: the fallback cascade is entered exactly when the primary attempt raised
\* on every retry attempt or returned a text of length <= 1; a primary attempt
\* that returns a text of length > 1 is returned at once with method "default"
\* and no fallback method is run, and a primary attempt that returns a trivial
\* text without raising is not retried before the cascade starts.
C20_CascadeEntry ==
    /\ CascadeJustEntered =>
          \/ w_out.act = "raise" /\ w_out.fails = MAX_ATTEMPTS /\ w_out.calls = MAX_ATTEMPTS
          \/ /\ w_out.act = "return" /\ Len(w_out.text) <= 1
             /\ w_out.calls = w_out.fails + 1 /\ w_out.func.kind = "text"
    /\ (mode = "region" /\ pc = "h_primary") => w_out.act \in {"running", "again"}
    /\ (mode = "region" /\ pc = "done" /\ cands # <<>> /\ cands[1].res.method = "default") =>
          /\ MethodsRun = 0 /\ fresults = <<>> /\ midx = 0
          /\ w_out.act = "return" /\ Len(w_out.text) > 1
          /\ cands[1].res = [text |-> w_out.text, confidence |-> DEFAULT_CONFIDENCE,
                             method |-> "default"]
          /\ ocr_calls = w_out.calls
    /\ (mode = "region" /\ MethodsRun > 0) =>
          \A k \in 1..Len(cands) : cands[k].res.method # "default"

\* the engine failed once and then returned the one-character text "A": the
\* cascade starts after these two invocations
C20_Witness ==
    /\ CascadeJustEntered
    /\ w_out.act = "return" /\ w_out.text = <<"A">>
    /\ w_out.fails = 1 /\ w_out.calls = 2
    /\ ocr_calls = 2

(***************************************************************************)
(* Properties of the fallback loop (SpecRegion)                            *)
(***************************************************************************)
\* this step ends the OCR call of a fallback method with a text of length > 1
FallbackYields ==
    /\ pc = "h_ocr" /\ pc' = "h_method"
    /\ w_out'.act = "return" /\ nontrivial(w_out'.text)

\* C21: if the primary attempt and every configured fallback method each
\* either raise after exhausting their retries or yield text of length <= 1,
\* extract_text_with_fallbacks raises nothing and returns exactly text "",
\* confidence 0.0, method "none".  (results is empty when the loop starts, only
\* a method that yields a text of length > 1 adds to it, and with results
\* still empty after the last method the empty result is returned.)
C21_AllFailGivesNone ==
    /\ [][(mode = "region" /\ pc = "h_primary" /\ pc' = "h_method")
              => fresults' = <<>>]_vars
    /\ [][(mode = "region" /\ pc \in {"h_method", "h_ocr"} /\ ~FallbackYields)
              => fresults' = fresults]_vars
    /\ [][(mode = "region" /\ FallbackYields) => Len(fresults') = Len(fresults) + 1]_vars
    /\ []((CascadeRan /\ fresults = <<>>) =>
              /\ MethodsRun = Len(methods)
              /\ cands[1].res = NoneResult
              /\ raised = FALSE)

\* the OCR engine raised on all 3 + 4 x 3 invocations, and the region's result
\* is the empty one
C21_Witness ==
    /\ CascadeRan
    /\ Len(methods) = 4 /\ MethodsRun = 4
    /\ ocr_calls = 15
    /\ fresults = <<>>
    /\ cands[1].res = NoneResult
    /\ raised = FALSE

\* the position of a method in config['fallback_methods']
MethodIndex(m) == CHOOSE i \in 1..Len(methods) : methods[i] = m

\* C22: when the cascade runs and at least one fallback method yields text of
\* length > 1, the returned result is the one with the highest confidence among
\* the results of the methods that were run, its method tag names the method
\* that produced its text, and among results of equal confidence the one from
\* the earliest method in the configured order is returned.
C22_BestFallbackReturned ==
    /\ [][(mode = "region" /\ FallbackYields) =>
              fresults' = Append(fresults,
                                 [text |-> w_out'.text,
                                  confidence |-> fallback_confidence(w_out'.text, CurType),
                                  method |-> methods[midx]])]_vars
    /\ [](mode = "region" =>
              \A a \in 1..Len(fresults) : \A b \in 1..Len(fresults) :
                  a < b => MethodIndex(fresults[a].method) < MethodIndex(fresults[b].method))
    /\ []((CascadeRan /\ fresults # <<>>) =>
              \E k \in 1..Len(fresults) :
                  /\ cands[1].res = fresults[k]
                  /\ \A j \in 1..Len(fresults) :
                        /\ fresults[j].confidence <= fresults[k].confidence
                        /\ j < k => fresults[j].confidence < fresults[k].confidence)

\* the second and the fourth method both read the 16-character code, the third
\* read "5%": the second method's result is returned
C22_Witness ==
    /\ CascadeRan
    /\ Len(methods) = 4 /\ Len(fresults) = 3
    /\ fresults[1].method = "gaussian_blur" /\ fresults[1].text = LongCode
    /\ fresults[2].method = "sharpen" /\ fresults[2].text = <<"5", "%">>
    /\ fresults[3].method = "histogram_equalization" /\ fresults[3].text = LongCode
    /\ fresults[1].confidence = fresults[3].confidence
    /\ cands[1].res = fresults[1]

(***************************************************************************)
(* The retry wrapper on its own: one call of the decorated                 *)
(* extract_text_with_retry(image, config) of a handler constructed with    *)
(* some configuration.  stages logs every invocation of the wrapped        *)
(* function: its arguments, the sleeps made before it, and how it ended.   *)
(***************************************************************************)
\* the arguments of the call: the image and the Tesseract configuration string
RetryArgs == {[image |-> i, config |-> c] : i \in {"roi", "processed"},
                                            c \in {"psm 6", "psm 7 code"}}

\* self.config of the handler: the defaults, or the values of a file
RetryConfigs ==
    {[max_retry_attempts |-> a, retry_delay |-> d, retry_backoff |-> b] :
        a \in {MAX_ATTEMPTS, 5}, d \in {DELAY, 3}, b \in {BACKOFF}}

\* pytesseract returns a text or raises one of its exceptions
RetryOutcomes ==
    {[kind |-> "raise", text |-> <<>>, exc |-> e] : e \in {"TesseractError", "RuntimeError"}}
    \cup {[kind |-> "text", text |-> t, exc |-> "none"] : t \in OcrTexts}

RetryInputs == {[args |-> a, config |-> c] : a \in RetryArgs, c \in RetryConfigs}

\* wrapper(*args, **kwargs) is called
R_Enter ==
    /\ pc = "r_idle"
    /\ WrapperEntered
    /\ pc' = "r_call"
    /\ UNCHANGED <<envVars, loopVars, extractVars, ocr_used, sideVars, retVars>>

\* `return func(*args, **kwargs)` and, when func raises, the except clause
R_Invoke ==
    /\ pc = "r_call"
    /\ \E o \in RetryOutcomes :
          /\ WrapperStep(o)
          /\ stages' = Append(stages, [args |-> inp.args, waited |-> slept, outcome |-> o])
          /\ pc' = IF retry(attempt, o).act = "again" THEN "r_call" ELSE "done"
    /\ UNCHANGED <<envVars, loopVars, ocr_calls, midx, fresults, ocr_used, sideVars,
                   retVars>>

NextRetry == R_Enter \/ R_Invoke

InitRetry ==
    /\ mode = "retry"
    /\ pc = "r_idle"
    /\ fn = "none" /\ inp \in RetryInputs /\ out = <<>>
    /\ PostIdle

SpecRetry == InitRetry /\ [][NextRetry]_vars

(***************************************************************************)
(* Properties of the retry wrapper (SpecRetry)                             *)
(***************************************************************************)
\* delay x backoff^(i-1) for i = 1..n
Waits(delay, backoff, n) == [i \in 1..n |-> delay * backoff ^ (i - 1)]

\* C23: in the retry wrapper, the wait before re-invoking after the i-th
\* failed attempt (i < max_attempts) is delay x backoff^(i-1) (1 then 2 seconds
\* with the defaults), the same call with the same arguments is re-invoked, and
\* after the final failed attempt the exception of that attempt is re-raised
\* without any further wait.
C23_ExponentialWaits ==
    (mode = "retry" /\ WrapperActed) =>
        /\ w_out.slept = Waits(DELAY, BACKOFF, IF w_out.act = "again" THEN w_out.fails
                                     ELSE IF w_out.act = "raise" THEN w_out.fails - 1
                                     ELSE w_out.fails)
        /\ Len(stages) = w_out.calls
        /\ \A k \in 1..Len(stages) :
              /\ stages[k].args = inp.args
              /\ stages[k].waited = Waits(DELAY, BACKOFF, k - 1)
              /\ k < Len(stages) => stages[k].outcome.kind = "raise"
        /\ w_out.act = "raise" =>
              /\ w_out.fails = MAX_ATTEMPTS
              /\ w_out.func = stages[Len(stages)].outcome
              /\ w_out.func.kind = "raise"
        /\ w_out.act = "again" => w_out.fails < MAX_ATTEMPTS

\* the third attempt failed with a RuntimeError after two TesseractErrors: it is
\* the RuntimeError that is raised, after waits of 1 and 2 seconds
C23_Witness ==
    /\ mode = "retry" /\ pc = "done"
    /\ w_out.act = "raise"
    /\ w_out.slept = <<1, 2>>
    /\ Len(stages) = 3
    /\ stages[1].outcome.exc = "TesseractError"
    /\ stages[2].outcome.exc = "TesseractError"
    /\ w_out.func.exc = "RuntimeError"

\* C28: the retry policy applied to the OCR call follows the handler's
\* configuration: the maximum number of attempts, the initial delay and the
\* backoff multiplier used at run time are the configured max_retry_attempts,
\* retry_delay and retry_backoff.
C28_RetryFollowsConfig ==
    (mode = "retry" /\ WrapperActed) =>
        /\ w_out.func.kind = "raise" =>
              w_out.act = (IF w_out.fails < inp.config.max_retry_attempts
                             THEN "again" ELSE "raise")
        /\ \E n \in 0..Len(w_out.slept) :
              w_out.slept = Waits(inp.config.retry_delay, inp.config.retry_backoff, n)

(***************************************************************************)
(* The memory monitor thread and one call of ResourceManager.extract_text  *)
(* running next to it.  Memory is in whole megabytes.  stages logs the     *)
(* steps of the call, each with the memory usage it read from the monitor. *)
(***************************************************************************)
MEMORY_LIMIT_MB == 1024

\* what process.memory_info().rss / (1024 * 1024) can be
MemorySamples == {MEMORY_LIMIT_MB \div 2, MEMORY_LIMIT_MB, 2 * MEMORY_LIMIT_MB}

MonitorUnchanged ==
    UNCHANGED <<pc, envVars, loopVars, retryVars, extractVars, ocr_used, futures,
                cleanups, invoked, cv_image, batchVars, retVars>>

\* `while not self.stopped.wait(self.interval)`, then memory_info() is read
M_Sample ==
    /\ monitor_pc = "wait"
    /\ \E m \in MemorySamples : memory_mb' = m
    /\ monitor_pc' = "sampled"
    /\ UNCHANGED <<current_memory, max_memory>>
    /\ MonitorUnchanged

\* psutil raises: "Error monitoring memory", and the loop goes on
M_SampleRaises ==
    /\ monitor_pc = "wait"
    /\ UNCHANGED <<memVars>>
    /\ MonitorUnchanged

\* self.current_memory = memory_mb
M_SetCurrent ==
    /\ monitor_pc = "sampled"
    /\ current_memory' = memory_mb
    /\ monitor_pc' = "current_set"
    /\ UNCHANGED <<max_memory, memory_mb>>
    /\ MonitorUnchanged

\* self.max_memory = max(self.max_memory, memory_mb)
M_SetMax ==
    /\ monitor_pc = "current_set"
    /\ max_memory' = Max2(max_memory, memory_mb)
    /\ monitor_pc' = "wait"
    /\ UNCHANGED <<current_memory, memory_mb>>
    /\ MonitorUnchanged

WorkerUnchanged ==
    UNCHANGED <<envVars, loopVars, retryVars, midx, fresults, futures, invoked,
                cv_image, memVars, batchVars, h_ret, t_ret, i_ret, rm_ret, raised>>

check_next_without_cleanup(current) == "e_interval"

\* `if current_memory > self.config['memory_limit_mb']`: clean up, or look at
\* the cleanup interval
check_next(current) == IF current > MEMORY_LIMIT_MB THEN "e_cleanup" ELSE "e_interval"

\* extract_text calls check_memory_usage, which reads the monitor
E_Check ==
    /\ pc = "e_idle"
    /\ stages' = <<[step |-> "check", memory |-> current_memory]>>
    /\ pc' = check_next(current_memory)
    /\ UNCHANGED <<ocr_calls, ocr_used, cleanups>>
    /\ WorkerUnchanged

\* over the limit: self.cleanup()
E_Cleanup ==
    /\ pc = "e_cleanup"
    /\ cleanups' = cleanups + 1
    /\ stages' = Append(stages, [step |-> "cleanup", memory |-> current_memory])
    /\ pc' = "e_recheck"
    /\ UNCHANGED <<ocr_calls, ocr_used>>
    /\ WorkerUnchanged

\* "Check memory usage again"; a False status is only logged by extract_text
E_Recheck ==
    /\ pc = "e_recheck"
    /\ stages' = Append(stages, [step |-> "recheck", memory |-> current_memory])
    /\ pc' = "e_ocr"
    /\ UNCHANGED <<ocr_calls, ocr_used, cleanups>>
    /\ WorkerUnchanged

\* within the limit: cleanup if the cleanup interval has elapsed
E_Interval ==
    /\ pc = "e_interval"
    /\ \E elapsed \in BOOLEAN :
          /\ cleanups' = IF elapsed THEN cleanups + 1 ELSE cleanups
          /\ stages' = IF elapsed
                         THEN Append(stages, [step |-> "cleanup", memory |-> current_memory])
                         ELSE stages
    /\ pc' = "e_ocr"
    /\ UNCHANGED <<ocr_calls, ocr_used>>
    /\ WorkerUnchanged

\* pytesseract.image_to_string under managed_tesseract; an exception gives ""
E_Ocr ==
    /\ pc = "e_ocr"
    /\ \E o \in RmOcrOutcomes :
          /\ out' = extract_text(o)
          /\ stages' = Append(stages, [step |-> "ocr", memory |-> current_memory])
    /\ ocr_calls' = ocr_calls + 1
    /\ ocr_used' = TRUE
    /\ pc' = "done"
    /\ UNCHANGED <<mode, fn, inp, inputVars, use_fixed, detected, loopVars, retryVars,
                   midx, fresults, futures, invoked, cv_image, memVars, batchVars,
                   retVars, cleanups>>

Monitor == M_Sample \/ M_SampleRaises \/ M_SetCurrent \/ M_SetMax

Worker == E_Check \/ E_Cleanup \/ E_Recheck \/ E_Interval \/ E_Ocr

NextMemory == Monitor \/ Worker

InitMemory ==
    /\ mode = "memory"
    /\ pc = "e_idle"
    /\ PureIdle
    /\ image = Unreadable /\ regions = <<>> /\ methods = DEFAULT_FALLBACK_METHODS
    /\ LoopIdle /\ ScratchIdle /\ AdaptiveIdle /\ RunQuiet /\ BatchIdle
    /\ cv_image = Unreadable
    /\ current_memory = 0 /\ max_memory = 0 /\ memory_mb = 0
    /\ monitor_pc = "wait"

SpecMemory == InitMemory /\ [][NextMemory]_vars

(***************************************************************************)
(* Properties of memory monitoring (SpecMemory)                            *)
(***************************************************************************)
\* the steps logged by the call, without the memory readings
Steps == [k \in 1..Len(stages) |-> stages[k].step]

\* the call found the monitored memory above the limit
OverLimit == mode = "memory" /\ stages # <<>> /\ stages[1].memory > MEMORY_LIMIT_MB

\* C24: whenever text extraction is requested while the monitored memory
\* exceeds memory_limit_mb, a cleanup pass runs before the OCR call and the OCR
\* call is still made: memory pressure never skips or aborts an extraction and
\* never raises.
C24_CleanupThenOcr ==
    OverLimit =>
        /\ raised = FALSE
        /\ pc # "done" => ENABLED Worker
        /\ pc = "done" =>
              /\ Steps = <<"check", "cleanup", "recheck", "ocr">>
              /\ ocr_calls = 1 /\ cleanups = 1

\* memory was 2048 MB when the call checked and still 2048 MB after the
\* cleanup; the OCR call was made
C24_Witness ==
    /\ OverLimit /\ pc = "done"
    /\ stages[1].memory = 2 * MEMORY_LIMIT_MB
    /\ stages[3].memory = 2 * MEMORY_LIMIT_MB
    /\ Steps[4] = "ocr"
    /\ ocr_calls = 1

\* C30: in every state a concurrent reader can observe while the memory
\* monitor thread is sampling, the exposed peak memory is greater than or equal
\* to the exposed current memory, and the exposed peak never decreases.
C30_PeakAtLeastCurrent ==
    /\ [](mode = "memory" => max_memory >= current_memory)
    /\ [][mode = "memory" => max_memory' >= max_memory]_vars

(***************************************************************************)
(* AdaptivePatternRecognizer.analyze_layout: the classification of the     *)
(* clustered text regions and the choice of one region per element type.   *)
(* A region comes with the best match classify_text_content finds in its   *)
(* text: the element type of the pattern and the match's place in the text *)
(* (type "none": no pattern matches; "empty": OCR gives no text).          *)
(***************************************************************************)
LayoutImage == [width |-> 100, height |-> 100]

\* (text_len, start, match_len) of a match: the whole text, the head of a
\* longer text, the tail of a longer text
MatchPlaces == {<<6, 0, 6>>, <<15, 0, 6>>, <<15, 9, 6>>}

Matches ==
    {[type |-> t, text_len |-> p[1], start |-> p[2], match_len |-> p[3]] :
        t \in {"store", "code"}, p \in MatchPlaces}
    \cup {[type |-> t, text_len |-> 0, start |-> 0, match_len |-> 0] : t \in {"none", "empty"}}

\* a text region (x, y, w, h) of a cluster, with the match in its text
TextRegions ==
    {[x |-> 5, y |-> p[1], w |-> p[2], h |-> 20, match |-> m] :
        p \in {<<10, 20>>, <<25, 20>>, <<50, 20>>, <<50, 60>>, <<80, 20>>}, m \in Matches}

LayoutInputs == SeqsUpTo(TextRegions, MaxDetected)

\* a < b for confidences kept as fractions
ConfLess(a, b) == a.num * b.den < b.num * a.den

\* "use position heuristics": store at the top, code in the middle, expiry at
\* the bottom, else the classification stays as it is
position_heuristics(img, r, element_type, confidence) ==
    IF 10 * r.y < 2 * img.height
      THEN [type |-> "store", confidence |-> Whole(60), by |-> "position"]
    ELSE IF 3 * img.height < 10 * r.y /\ 10 * r.y < 7 * img.height
            /\ 10 * r.w > 3 * img.width
      THEN [type |-> "code", confidence |-> Whole(60), by |-> "position"]
    ELSE IF 10 * r.y > 7 * img.height
      THEN [type |-> "expiry", confidence |-> Whole(50), by |-> "position"]
    ELSE [type |-> element_type, confidence |-> confidence, by |-> "pattern"]

\* classify_text_content, then `if not element_type or confidence < 0.5`
classify_region(img, r) ==
    LET element_type == r.match.type
        confidence == IF element_type = "none" THEN Whole(0)
                      ELSE classifier_confidence(r.match.text_len, r.match.start,
                                                 r.match.match_len)
    IN  IF element_type = "none" \/ ConfLess(confidence, Whole(50))
          THEN position_heuristics(img, r, element_type, confidence)
          ELSE [type |-> element_type, confidence |-> confidence, by |-> "pattern"]

\* classified_regions, as one list in the order the regions are classified; a
\* region without text or without element type is left out
RECURSIVE classified_regions(_, _)
classified_regions(img, rs) ==
    IF rs = <<>> THEN <<>>
    ELSE LET r == Head(rs)
             c == classify_region(img, r)
         IN  (IF r.match.type = "empty" \/ c.type = "none" THEN <<>>
              ELSE <<[region |-> r, type |-> c.type, confidence |-> c.confidence,
                      by |-> c.by]>>)
             \o classified_regions(img, Tail(rs))

\* regions.sort(key=confidence, reverse=True); regions[0]   (the sort is stable)
best_classified(cs) ==
    cs[SetMin({i \in 1..Len(cs) : \A j \in 1..Len(cs) :
                    ~ConfLess(cs[i].confidence, cs[j].confidence)})]

OfType(cs, t) == SelectSeq(cs, LAMBDA c : c.type = t)

\* identified_regions: for each element type that has regions, the best one
select_regions(cs) ==
    [t \in {cs[k].type : k \in 1..Len(cs)} |-> best_classified(OfType(cs, t))]

LayoutUnchanged ==
    UNCHANGED <<mode, inp, inputVars, use_fixed, detected, loopVars, retryVars,
                extractVars, ocr_used, sideVars, retVars>>

\* "Extract text from each region and classify"
L_Classify ==
    /\ pc = "l_classify"
    /\ fn' = "classify"
    /\ out' = [classified |-> classified_regions(LayoutImage, inp), identified |-> <<>>]
    /\ pc' = "l_select"
    /\ LayoutUnchanged

\* "Post-process to select best regions for each element type"
L_Select ==
    /\ pc = "l_select"
    /\ fn' = "select"
    /\ out' = [out EXCEPT !.identified = select_regions(out.classified)]
    /\ pc' = "done"
    /\ LayoutUnchanged

NextLayout == L_Classify \/ L_Select

InitLayout ==
    /\ mode = "layout"
    /\ pc = "l_classify"
    /\ fn = "none" /\ inp \in LayoutInputs /\ out = <<>>
    /\ PostIdle

SpecLayout == InitLayout /\ [][NextLayout]_vars

(***************************************************************************)
(* Properties of the layout analysis (SpecLayout)                          *)
(***************************************************************************)
\* C26: pattern evidence always outranks position evidence: whenever
\* analyze_layout picks the best region for a field type, every region that
\* kept its regex-pattern classification has a confidence strictly greater than
\* every region classified by the positional fallback, so a position-classified
\* region is never selected over a pattern-classified region of the same type.
C26_PatternOutranksPosition ==
    (mode = "layout" /\ pc = "done") =>
        /\ \A a \in 1..Len(out.classified) : \A b \in 1..Len(out.classified) :
              (out.classified[a].by = "pattern" /\ out.classified[b].by = "position")
                  => ConfLess(out.classified[b].confidence, out.classified[a].confidence)
        /\ \A t \in DOMAIN out.identified :
              (\E k \in 1..Len(out.classified) :
                    out.classified[k].type = t /\ out.classified[k].by = "pattern")
                  => out.identified[t].by = "pattern"

(***************************************************************************)
(* Properties of the classifier's pattern path (SpecPure)                  *)
(***************************************************************************)
\* C27: for every non-empty text and every matching pattern, the confidence
\* returned by the pattern path of the classifier is at least 0.2 and at most
\* 0.9, whatever the match length and match position.
C27_PatternConfidenceBounds ==
    Applied("classifier_confidence") =>
        /\ 20 * out.den <= out.num
        /\ out.num <= 90 * out.den

(***************************************************************************)
(* ModelManager._merge_boxes, on the boxes _auto_detect_regions hands it:  *)
(* (x1, y1, x2, y2) with x2 - x1 > 10 and y2 - y1 > 10.                    *)
(***************************************************************************)
MaxBoxes == 3

Box(x, y, w, h) == <<x, y, x + w, y + h>>

BoxPool == {Box(x, y, 11, 11) : x \in {0, 1, 2, 20}, y \in {0, 5, 50}}

BoxLists == SeqsUpTo(BoxPool, MaxBoxes)

\* sorted(boxes, key=lambda box: box[0]): a stable sort, by insertion
RECURSIVE insert_by_x(_, _)
insert_by_x(sorted_boxes, box) ==
    IF sorted_boxes = <<>> THEN <<box>>
    ELSE IF sorted_boxes[Len(sorted_boxes)][1] <= box[1] THEN Append(sorted_boxes, box)
    ELSE Append(insert_by_x(SubSeq(sorted_boxes, 1, Len(sorted_boxes) - 1), box),
                sorted_boxes[Len(sorted_boxes)])

RECURSIVE sorted_by_x(_)
sorted_by_x(boxes) ==
    IF boxes = <<>> THEN <<>>
    ELSE insert_by_x(sorted_by_x(SubSeq(boxes, 1, Len(boxes) - 1)), boxes[Len(boxes)])

\* "Check if boxes overlap"
overlap(current, box) ==
    /\ current[3] >= box[1]
    /\ current[1] <= box[3]
    /\ current[4] >= box[2]
    /\ current[2] <= box[4]

\* "Merge boxes"
union_box(current, box) ==
    <<IF current[1] <= box[1] THEN current[1] ELSE box[1],
      IF current[2] <= box[2] THEN current[2] ELSE box[2],
      Max2(current[3], box[3]),
      Max2(current[4], box[4])>>

\* `for box in sorted_boxes[1:]`, then merged.append(current)
RECURSIVE sweep(_, _, _)
sweep(merged, current, rest) ==
    IF rest = <<>> THEN Append(merged, current)
    ELSE IF overlap(current, Head(rest))
      THEN sweep(merged, union_box(current, Head(rest)), Tail(rest))
      ELSE sweep(Append(merged, current), Head(rest), Tail(rest))

merge_boxes(boxes) ==
    IF boxes = <<>> THEN <<>>
    ELSE sweep(<<>>, Head(sorted_by_x(boxes)), Tail(sorted_by_x(boxes)))

\* merged_boxes = self._merge_boxes(text_boxes)
MB_Merge ==
    /\ pc = "mb_apply"
    /\ fn' = "merge_boxes"
    /\ out' = merge_boxes(inp)
    /\ pc' = "done"
    /\ UNCHANGED <<mode, inp, inputVars, use_fixed, detected, loopVars, retryVars,
                   extractVars, ocr_used, sideVars, retVars>>

NextMerge == MB_Merge

InitMerge ==
    /\ mode = "merge"
    /\ pc = "mb_apply"
    /\ fn = "none" /\ inp \in BoxLists /\ out = <<>>
    /\ PostIdle

SpecMerge == InitMerge /\ [][NextMerge]_vars

(***************************************************************************)
(* Properties of the overlap-merge (SpecMerge)                             *)
(***************************************************************************)
Inside(box, m) == m[1] <= box[1] /\ m[2] <= box[2] /\ box[3] <= m[3] /\ box[4] <= m[4]

\* C29: for every input list of boxes, the list returned by the overlap-merge
\* contains no two boxes that overlap under the same overlap test the merge
\* uses, and every input box is contained in some returned box.
C29_MergedBoxesDisjoint ==
    (mode = "merge" /\ pc = "done") =>
        /\ \A i \in 1..Len(out) : \A j \in 1..Len(out) :
              i # j => ~overlap(out[i], out[j])
        /\ \A k \in 1..Len(inp) : \E m \in 1..Len(out) : Inside(inp[k], out[m])

(***************************************************************************)
(* ImprovedCouponRecognizer.batch_process: process_image is run for each   *)
(* image path in turn (the paths are distinct; an entry of batch_results   *)
(* is kept under the position of its path).                                *)
(***************************************************************************)
MaxBatch == 2

\* config['pattern_regions'] of the batch runs
BatchPatternMaps ==
    {<<[type |-> "code", list |-> <<r>>]>> : r \in {ValidRegion, ReversedRegion,
                                                     MalformedRegion}}

\* an image path: the image behind it and what the pattern recognizer finds
BatchImages(fixed) ==
    IF fixed THEN {[image |-> i, detected |-> <<>>] : i \in Images}
    ELSE {[image |-> Unreadable, detected |-> <<>>]}
         \cup {[image |-> i, detected |-> d] :
                  i \in Images \ {Unreadable},
                  d \in {<<>>, <<Detection(0, 0, 2, 2, TRUE, "code", 60)>>}}

next_image_unless_failed(i, result) ==
    IF "error" \in result.keys THEN Len(image_paths) + 1 ELSE i + 1

\* `for image_path in image_paths`: the loop goes on to the next path, whatever
\* process_image returned
next_image(i, result) == i + 1

\* result = self.process_image(image_path, use_fixed_patterns): the call starts
\* with fresh locals
B_Start ==
    /\ pc = "b_loop"
    /\ bi <= Len(image_paths)
    /\ image' = image_paths[bi].image
    /\ detected' = image_paths[bi].detected
    /\ regions' = IF use_fixed THEN regions ELSE <<>>
    /\ ti' = 1 /\ ri' = 1 /\ best' = NoneResult /\ results' = <<>> /\ cands' = <<>>
    /\ RetryIdle
    /\ RegionEntered
    /\ ocr_used' = FALSE
    /\ cv_image' = Unreadable
    /\ h_ret' = NotReturned /\ t_ret' = NotReturned /\ i_ret' = NotReturned
    /\ pc' = "i_load"
    /\ UNCHANGED <<mode, pureVars, methods, use_fixed, futures, cleanups, invoked,
                   memVars, batchVars, rm_ret, raised>>

\* batch_results[image_path] = result; the result is saved if an output
\* directory is given (an error of the save is only logged); "Clean up after
\* each image"
B_Store ==
    /\ pc = "b_store"
    /\ batch_results' = Append(batch_results, [path |-> bi, result |-> i_ret])
    /\ cleanups' = cleanups + 1
    /\ bi' = next_image(bi, i_ret)
    /\ pc' = "b_loop"
    /\ UNCHANGED <<envVars, loopVars, retryVars, extractVars, ocr_used, futures,
                   invoked, cv_image, memVars, image_paths, retVars>>

\* return batch_results
B_Return ==
    /\ pc = "b_loop"
    /\ bi > Len(image_paths)
    /\ pc' = "done"
    /\ UNCHANGED <<envVars, loopVars, retryVars, extractVars, ocr_used, sideVars,
                   retVars>>

\* an image that managed_image could read is read by the two recognizers too:
\* their own unreadable-image answers cannot occur below process_image
NextBatch ==
    \/ B_Start \/ B_Store \/ B_Return
    \/ I_Unreadable \/ I_Fixed \/ I_Adaptive \/ I_Combine
    \/ H_Load \/ H_Type \/ H_Return \/ H_EndType
    \/ H_RegionMalformed \/ H_RegionSkipped \/ H_ConvertRaises \/ H_Extract
    \/ H_PrimaryOcr \/ H_CascadeDone \/ H_MethodRaises \/ H_Method \/ H_FallbackOcr
    \/ T_Load \/ T_Type \/ T_Return \/ T_EndType
    \/ T_RegionMalformed \/ T_RegionSkipped \/ T_StageRaises \/ T_ProcessRegion

InitBatch ==
    /\ mode = "batch"
    /\ pc = "b_loop"
    /\ PureIdle
    /\ image = Unreadable /\ detected = <<>>
    /\ methods = <<"sharpen">>
    /\ \/ use_fixed = TRUE /\ regions \in BatchPatternMaps
          /\ image_paths \in SeqsUpTo(BatchImages(TRUE), MaxBatch)
       \/ use_fixed = FALSE /\ regions = <<>>
          /\ image_paths \in SeqsUpTo(BatchImages(FALSE), MaxBatch)
    /\ bi = 1 /\ batch_results = <<>>
    /\ LoopIdle /\ ScratchIdle /\ RunQuiet /\ MemoryIdle
    /\ cv_image = Unreadable

SpecBatch == InitBatch /\ [][NextBatch]_vars

(***************************************************************************)
(* Properties of the orchestrator's cleanup and of the batch (SpecBatch)   *)
(***************************************************************************)
\* process_image has just returned to batch_process
CallReturned == mode = "batch" /\ pc = "b_store"

\* C25: every call of the orchestrator's process_image runs a resource cleanup
\* pass before it returns, on the normal path and on every error path alike,
\* and in batch_process a failure on one image does not prevent the remaining
\* images from being processed.  (cleanups counts the cleanup passes: one by
\* each call of process_image, one by the batch after each image.)
C25_CleanupAndBatchGoesOn ==
    /\ mode = "batch" => raised = FALSE
    /\ CallReturned =>
          /\ Returned(i_ret)
          /\ cleanups = 2 * Len(batch_results) + 1
          /\ ("error" \in i_ret.keys) <=> ~image.readable
    /\ (mode = "batch" /\ pc \notin {"b_store", "b_loop", "done"}) =>
          cleanups = 2 * Len(batch_results)
    /\ (mode = "batch" /\ pc = "done") =>
          /\ Len(batch_results) = Len(image_paths)
          /\ cleanups = 2 * Len(image_paths)
          /\ \A k \in 1..Len(image_paths) :
                /\ batch_results[k].path = k
                /\ ("error" \in batch_results[k].result.keys)
                      <=> ~image_paths[k].image.readable

\* the first image could not be read, the second was processed and has its
\* result in the batch
C25_Witness ==
    /\ mode = "batch" /\ pc = "done"
    /\ Len(image_paths) = 2
    /\ ~image_paths[1].image.readable /\ image_paths[2].image.readable
    /\ "error" \in batch_results[1].result.keys
    /\ "error" \notin batch_results[2].result.keys
    /\ batch_results[2].result.entries # <<>>
    /\ cleanups = 4

====
